---- MODULE Spec2Model ----
(***************************************************************************)
(* Connection management of the YAS Bluetooth bridge.                      *)
(*                                                                         *)
(* The program is a single cooperative loop (main.cpp loop()).  One tick   *)
(* runs, in order: server.handleClient() (the HTTP handlers),              *)
(* mqtt.loop() (the MQTT callback), the Bluetooth reconnect block and the  *)
(* MQTT reconnect block.  Each of these runs to completion; pc names the   *)
(* part that runs next.  Operations are written as functions from a        *)
(* record of the program state to the record after the call, so that a     *)
(* handler that calls another (setup -> connectBluetooth -> setBtStatus    *)
(* -> publishBtStatus) is the composition of their models.                 *)
(*                                                                         *)
(* Where main.cpp and the per-module files both define a function          *)
(* (connectBluetooth, connectMqtt, ...), the per-module definition         *)
(* (bluetooth.cpp, mqtt_client.cpp, http_handlers.cpp) is the one          *)
(* modelled: it is the one that works on the state of state.h.  setup()    *)
(* and loop() exist only in main.cpp.                                      *)
(*                                                                         *)
(* Time is millis(), in milliseconds.  Every delay() the code states is    *)
(* added to the clock inside the operation; all other time passes between  *)
(* two ticks (Advance).  The clock stays far below 2^32, so unsigned       *)
(* wrap-around does not occur.                                             *)
(***************************************************************************)
EXTENDS Integers, Sequences, FiniteSets, TLC

----------------------------------------------------------------------------
(* Program constants *)

BT_RECONNECT_DELAY_MS == 10000
MQTT_RECONNECT_DELAY_MS == 5000
HOLD_OFF_MS == 30000
MAC_ATTEMPTS == 3
MAC_RETRY_DELAY_MS == 2000
STALE_SETTLE_MS == 500
SETUP_DELAY_MS == 1000
WIFI_POLL_MS == 500

\* main.cpp's MQTT attempt time; connectMqtt of mqtt_client.cpp never writes it
lastMqttConnectAttempt == 0
\* config.h
STATUS_REQUEST_TIMEOUT_MS == 3000
STATUS_POLL_INTERVAL_MS == 5000
\* requestStatus(): the response ends when no byte arrived for 100 ms
RX_IDLE_MS == 100
\* setVolume(), setSubwoofer(): delay(50) after a toggle, delay(100) before
\* the confirmation poll, the caps of the loops, the subwoofer step
TOGGLE_DELAY_MS == 50
SETTLE_MS == 100
VOLUME_MAX_STEPS == 50
SUBWOOFER_MAX_STEPS == 8
SUBWOOFER_STEP == 4
\* mqttCallback(): the accepted targets, delay(100) after a command
VOLUME_MAX == 50
SUBWOOFER_MAX == 32
COMMAND_SETTLE_MS == 100

----------------------------------------------------------------------------
(* Bounds of the model *)

\* the clock is advanced by the environment while it is below MaxSteps steps
MaxSteps == 2
\* loop() enters connectBluetooth while connectAttempts is below MaxAttempts
MaxAttempts == 2
\* messages on the command, volume and subwoofer topics a run of StatusSpec
\* delivers
MaxMessages == 1

\* Between two ticks the clock moves to the next multiple of StepMs, the
\* reconnect backoff; the delays inside an operation move it by their own
\* length, so that differences below, equal to and above the backoff occur.
StepMs == BT_RECONNECT_DELAY_MS

\* number of 500 ms polls setup() waits for the WiFi address
WifiPolls == {8}

----------------------------------------------------------------------------
(* yas_commands.h: the command codec.  A hex string is the sequence of its *)
(* digits, each a number in 0..15; a frame on the link is a sequence of    *)
(* bytes.                                                                  *)

\* the keys of COMMANDS
CommandNames ==
    {"power_toggle", "power_on", "power_off", "set_input_hdmi",
     "set_input_analog", "set_input_bluetooth", "set_input_tv",
     "set_surround_3d", "set_surround_tv", "set_surround_stereo",
     "set_surround_movie", "set_surround_music", "set_surround_sports",
     "set_surround_game", "surround_toggle", "clearvoice_toggle",
     "clearvoice_on", "clearvoice_off", "bass_ext_toggle",
     "bass_ext_on", "bass_ext_off", "subwoofer_up", "subwoofer_down",
     "mute_toggle", "mute_on", "mute_off", "volume_up", "volume_down",
     "bluetooth_standby_toggle", "dimmer", "report_status"}

\* COMMANDS: the payload of a command, as written in the table
COMMANDS(c) ==
    CASE c = "power_toggle" -> <<4, 0, 7, 8, 12, 12>>
      [] c = "power_on" -> <<4, 0, 7, 8, 7, 14>>
      [] c = "power_off" -> <<4, 0, 7, 8, 7, 15>>
      [] c = "set_input_hdmi" -> <<4, 0, 7, 8, 4, 10>>
      [] c = "set_input_analog" -> <<4, 0, 7, 8, 13, 1>>
      [] c = "set_input_bluetooth" -> <<4, 0, 7, 8, 2, 9>>
      [] c = "set_input_tv" -> <<4, 0, 7, 8, 13, 15>>
      [] c = "set_surround_3d" -> <<4, 0, 7, 8, 12, 9>>
      [] c = "set_surround_tv" -> <<4, 0, 7, 14, 15, 1>>
      [] c = "set_surround_stereo" -> <<4, 0, 7, 8, 5, 0>>
      [] c = "set_surround_movie" -> <<4, 0, 7, 8, 13, 9>>
      [] c = "set_surround_music" -> <<4, 0, 7, 8, 13, 10>>
      [] c = "set_surround_sports" -> <<4, 0, 7, 8, 13, 11>>
      [] c = "set_surround_game" -> <<4, 0, 7, 8, 13, 12>>
      [] c = "surround_toggle" -> <<4, 0, 7, 8, 11, 4>>
      [] c = "clearvoice_toggle" -> <<4, 0, 7, 8, 5, 12>>
      [] c = "clearvoice_on" -> <<4, 0, 7, 14, 8, 0>>
      [] c = "clearvoice_off" -> <<4, 0, 7, 14, 8, 2>>
      [] c = "bass_ext_toggle" -> <<4, 0, 7, 8, 8, 11>>
      [] c = "bass_ext_on" -> <<4, 0, 7, 8, 6, 14>>
      [] c = "bass_ext_off" -> <<4, 0, 7, 8, 6, 15>>
      [] c = "subwoofer_up" -> <<4, 0, 7, 8, 4, 12>>
      [] c = "subwoofer_down" -> <<4, 0, 7, 8, 4, 13>>
      [] c = "mute_toggle" -> <<4, 0, 7, 8, 9, 12>>
      [] c = "mute_on" -> <<4, 0, 7, 14, 10, 2>>
      [] c = "mute_off" -> <<4, 0, 7, 14, 10, 3>>
      [] c = "volume_up" -> <<4, 0, 7, 8, 1, 14>>
      [] c = "volume_down" -> <<4, 0, 7, 8, 1, 15>>
      [] c = "bluetooth_standby_toggle" -> <<4, 0, 7, 8, 3, 4>>
      [] c = "dimmer" -> <<4, 0, 7, 8, 11, 10>>
      [] c = "report_status" -> <<0, 3, 0, 5>>

isValidCommand(c) == c \in CommandNames

\* strtol(two digits, NULL, 16)
HexByte(h, i) == 16 * h[i] + h[i + 1]

\* snprintf("%02x", n) for n in 0..255
Hex2(n) == <<n \div 16, n % 16>>

\* the for loop of encodeCommand: the sum of the payload bytes from digit i on
RECURSIVE PayloadSum(_, _)
PayloadSum(h, i) ==
    IF i > Len(h) THEN 0 ELSE HexByte(h, i) + PayloadSum(h, i + 2)

\* (-sum) & 0xFF
NegByte(sum) == (256 - (sum % 256)) % 256

MAGIC == <<12, 12, 10, 10>>

\* faulty variant of encodeCommand: the checksum leaves out the length byte
encodeCommand_ChecksumOfPayload(c) ==
    IF ~isValidCommand(c) THEN <<>>
    ELSE LET payload == COMMANDS(c)
             payloadLen == Len(payload) \div 2
         IN  MAGIC \o Hex2(payloadLen) \o payload
                   \o Hex2(NegByte(PayloadSum(payload, 1)))

\* encodeCommand(): "ccaa" <length> <payload> <checksum>, "" for an unknown name
encodeCommand(c) ==
    IF ~isValidCommand(c) THEN <<>>
    ELSE LET payload == COMMANDS(c)
             payloadLen == Len(payload) \div 2
             sum == payloadLen + PayloadSum(payload, 1)
             checksum == NegByte(sum)
         IN  MAGIC \o Hex2(payloadLen) \o payload \o Hex2(checksum)

\* sizeof(buffer) in sendCommand
TX_BUFFER == 32

\* hexStringToBytes(hex, buffer, maxLen)
hexStringToBytes(h, maxLen) ==
    LET len == IF Len(h) \div 2 > maxLen THEN maxLen ELSE Len(h) \div 2
    IN  [i \in 1..len |-> HexByte(h, 2 * i - 1)]

----------------------------------------------------------------------------
(* Status records *)

\* YasStatus as decodeStatus and requestStatus initialise it, and lastStatus
\* as main.cpp:40 initialises it
UnknownStatus ==
    [power |-> FALSE, input |-> "unknown", muted |-> FALSE, volume |-> 0,
     subwoofer |-> 0, surround |-> "unknown", bass_ext |-> FALSE,
     clear_voice |-> FALSE, valid |-> FALSE]

\* a status the soundbar reports: a valid decode
Report(v, sw) ==
    [power |-> TRUE, input |-> "hdmi", muted |-> FALSE, volume |-> v,
     subwoofer |-> sw, surround |-> "movie", bass_ext |-> FALSE,
     clear_voice |-> FALSE, valid |-> TRUE]

\* no answer to report_status before the timeout
NoReply == UnknownStatus

\* INPUT_NAMES: the name of an input code, "unknown" for a code not in it
INPUT_NAMES(code) ==
    CASE code = <<0, 0>> -> "hdmi"
      [] code = <<0, 12>> -> "analog"
      [] code = <<0, 5>> -> "bluetooth"
      [] code = <<0, 7>> -> "tv"
      [] OTHER -> "unknown"

\* SURROUND_NAMES: the name of a surround code, "unknown" for a code not in it
SURROUND_NAMES(code) ==
    CASE code = <<0, 0, 0, 13>> -> "3d"
      [] code = <<0, 0, 0, 10>> -> "tv"
      [] code = <<0, 1, 0, 0>> -> "stereo"
      [] code = <<0, 0, 0, 3>> -> "movie"
      [] code = <<0, 0, 0, 8>> -> "music"
      [] code = <<0, 0, 0, 9>> -> "sports"
      [] code = <<0, 0, 0, 12>> -> "game"
      [] OTHER -> "unknown"

\* String::substring(left, right): the characters at the offsets left to
\* right - 1, counted from 0; the right end is clamped to the length and the
\* result is empty when left is at or past it
substring(h, left, right) ==
    LET to == IF right > Len(h) THEN Len(h) ELSE right
    IN  IF left >= Len(h) THEN <<>> ELSE SubSeq(h, left + 1, to)

\* strtol(digits, NULL, 16): 0 for the empty string
RECURSIVE strtol(_)
strtol(d) ==
    IF d = <<>> THEN 0 ELSE 16 * strtol(SubSeq(d, 1, Len(d) - 1)) + d[Len(d)]

\* bytesToHexString(buffer, len): two digits for every byte
RECURSIVE bytesToHexString(_)
bytesToHexString(b) ==
    IF b = <<>> THEN <<>> ELSE Hex2(Head(b)) \o bytesToHexString(Tail(b))

\* faulty variant of StatusFields: both flags are read from the whole of the
\* last byte
StatusFields_FlagsTogether(h) ==
    [power |-> substring(h, 10, 12) = <<0, 1>>,
     input |-> INPUT_NAMES(substring(h, 12, 14)),
     muted |-> substring(h, 14, 16) = <<0, 1>>,
     volume |-> strtol(substring(h, 16, 18)),
     subwoofer |-> strtol(substring(h, 18, 20)),
     surround |-> SURROUND_NAMES(substring(h, 26, 30)),
     bass_ext |-> substring(h, 30, 32) = <<2, 4>>,
     clear_voice |-> substring(h, 30, 32) = <<2, 4>>,
     valid |-> TRUE]

\* the fields decodeStatus() reads once it has accepted the input
StatusFields(h) ==
    [power |-> substring(h, 10, 12) = <<0, 1>>,
     input |-> INPUT_NAMES(substring(h, 12, 14)),
     muted |-> substring(h, 14, 16) = <<0, 1>>,
     volume |-> strtol(substring(h, 16, 18)),
     subwoofer |-> strtol(substring(h, 18, 20)),
     surround |-> SURROUND_NAMES(substring(h, 26, 30)),
     bass_ext |-> substring(h, 30, 31) = <<2>>,
     clear_voice |-> substring(h, 31, 32) = <<4>>,
     valid |-> TRUE]

\* faulty variant of decodeStatus: the length of the input is not checked
decodeStatus_NoLengthCheck(h) ==
    IF substring(h, 6, 8) # <<0, 5>> THEN UnknownStatus ELSE StatusFields(h)

\* faulty variant of decodeStatus: the input is not checked at all
decodeStatus_NoChecks(h) == StatusFields(h)

\* decodeStatus(): the initial record for an input of fewer than 32 digits
\* or one whose type (offset 3) is not 05, the fields read otherwise
decodeStatus(h) ==
    IF Len(h) < 32 THEN UnknownStatus
    ELSE IF substring(h, 6, 8) # <<0, 5>> THEN UnknownStatus
    ELSE StatusFields(h)

\* the periodic poll of a step: the branch of main.cpp lines 147-164 it took
\* and the record requestStatus() returned to it
Poll(path, status) == [path |-> path, status |-> status]
NoPoll == Poll("none", NoReply)

\* a call of setVolume or setSubwoofer that made its first status request:
\* the target and the record the request returned
Call(target, status) == [target |-> target, status |-> status]
NoCall == Call(-1, NoReply)

\* what the status requests return in the model of the whole program: the
\* soundbar does not answer (the answers are the subject of StatusSpec)
Replies == {NoReply}

----------------------------------------------------------------------------
(* State *)

VARIABLES
    now,                    \* millis()
    pc,                     \* block of setup()/loop() that runs next
    linkUp,                 \* SerialBT.connected()
    mqttUp,                 \* mqtt.connected()
    btConnected,
    lastBtConnectAttempt,
    reconnectHoldOffUntil,
    isPaired,
    prefsPaired,            \* prefs key "paired" (NVS, survives restart)
    btStats,
    lastBtStatus,
    lastPublishedBtStatus,
    lastStatusPoll,
    lastSoundbarStatus,     \* Last Known Status (lastStatus in main.cpp)
    addressValid,           \* the build has a SOUNDBAR_ADDRESS that parses
    wifiGotIP,              \* main.cpp line 39, written by WiFiEvent()
    apiKey,                 \* API_KEY of the build, as its characters
    device,                 \* the replies the soundbar can give to a status request
    pending,                \* messages of the control topics not yet delivered
    io,                     \* calls to the collaborators made by the last step
    pub,                    \* records published on the state topic by the last step
    conn,                   \* path connectBluetooth took in the last step
    poll,                   \* the periodic poll of the last step: path, record
    call,                   \* the setVolume/setSubwoofer call of the last step
    lastOp,                 \* operation the last step ran
    cmd,                    \* codec: the command name given to encodeCommand
    hex,                    \* codec: the hex string encodeCommand returned
    bytes,                  \* codec: the bytes hexStringToBytes made of it
    bytesSent,              \* btStats.bytesSent
    bytesReceived,          \* btStats.bytesReceived
    wire,                   \* link: the calls of SerialBT.write() so far
    result,                 \* link: the value sendCommand() returned
    inbound,                \* link: the bytes the soundbar sends, with their times
    taken,                  \* link: how many of them SerialBT.read() has returned
    requestStart,           \* requestStatus(): requestStart
    lastByteTime,           \* requestStatus(): lastByteTime
    buffer,                 \* requestStatus(): buffer[0..len-1]
    response,               \* requestStatus(): the hex string given to decodeStatus
    rxStatus                \* requestStatus(): status, the record it returns

codecVars == <<cmd, hex, bytes>>

\* SOUNDBAR_ADDRESS (secrets.h) is configured and parses as six hex bytes;
\* fixed by the build
SOUNDBAR_ADDRESS_VALID == addressValid

linkVars == <<bytesSent, bytesReceived, wire, result, inbound, taken,
              requestStart, lastByteTime, buffer, response, rxStatus>>

vars == <<now, pc, linkUp, mqttUp, btConnected, lastBtConnectAttempt,
          reconnectHoldOffUntil, isPaired, prefsPaired, btStats, lastBtStatus,
          lastPublishedBtStatus, lastStatusPoll, lastSoundbarStatus,
          addressValid, wifiGotIP, apiKey, device, pending, io, pub, conn, poll,
          call,
          lastOp,
          cmd, hex, bytes,
          bytesSent, bytesReceived, wire, result, inbound, taken,
          requestStart, lastByteTime, buffer, response, rxStatus>>

BtStats0 ==
    [connectAttempts |-> 0, connectSuccesses |-> 0, connectFailures |-> 0,
     disconnects |-> 0, lastConnectDuration |-> 0, totalConnectedTime |-> 0,
     connectedSince |-> 0, lastError |-> 0]

\* the program state as one record, with the log of the step emptied
Cur ==
    [now |-> now, linkUp |-> linkUp, mqttUp |-> mqttUp,
     btConnected |-> btConnected,
     lastBtConnectAttempt |-> lastBtConnectAttempt,
     reconnectHoldOffUntil |-> reconnectHoldOffUntil,
     isPaired |-> isPaired, prefsPaired |-> prefsPaired, btStats |-> btStats,
     lastBtStatus |-> lastBtStatus,
     lastPublishedBtStatus |-> lastPublishedBtStatus,
     lastStatusPoll |-> lastStatusPoll,
     lastSoundbarStatus |-> lastSoundbarStatus, pending |-> pending,
     io |-> <<>>, pub |-> <<>>, conn |-> "none", poll |-> NoPoll,
     call |-> NoCall]

\* the globals and the ghost variables take the values of the record s
Write(s) ==
    /\ now' = s.now
    /\ linkUp' = s.linkUp
    /\ mqttUp' = s.mqttUp
    /\ btConnected' = s.btConnected
    /\ lastBtConnectAttempt' = s.lastBtConnectAttempt
    /\ reconnectHoldOffUntil' = s.reconnectHoldOffUntil
    /\ isPaired' = s.isPaired
    /\ prefsPaired' = s.prefsPaired
    /\ btStats' = s.btStats
    /\ lastBtStatus' = s.lastBtStatus
    /\ lastPublishedBtStatus' = s.lastPublishedBtStatus
    /\ lastStatusPoll' = s.lastStatusPoll
    /\ lastSoundbarStatus' = s.lastSoundbarStatus
    /\ pending' = s.pending
    /\ io' = s.io
    /\ pub' = s.pub
    /\ conn' = s.conn
    /\ poll' = s.poll
    /\ call' = s.call
    /\ UNCHANGED <<addressValid, apiKey, codecVars, linkVars>>

\* a step of the loop task: no WiFi event arrives while it runs, and the
\* soundbar answers after it as before
Become(s) == Write(s) /\ UNCHANGED <<wifiGotIP, device>>

Emit(s, e) == [s EXCEPT !.io = Append(@, e)]

Delay(s, ms) == [s EXCEPT !.now = @ + ms]

\* what the soundbar can answer to a status request made in the state s: one
\* of its answers when the request is made and written, nothing to choose
\* when it is not
AnswersIn(s, asked) == IF asked /\ s.linkUp THEN device ELSE {NoReply}

Answers(asked) == AnswersIn(Cur, asked)

----------------------------------------------------------------------------
(* Collaborators *)

\* prefs.putBool("paired", v)
PutPaired(s, v) ==
    Emit([s EXCEPT !.prefsPaired = v],
         <<"prefs.putBool", "paired", IF v THEN "true" ELSE "false">>)

\* mqtt.publish(MQTT_AVAILABLE_TOPIC, v, true)
PublishAvailable(s, v) == Emit(s, <<"mqtt.publish", "available", v>>)

\* publishBtStatus(): publish the status string unless it was the last one published
publishBtStatus(s) ==
    IF s.mqttUp /\ s.lastBtStatus # s.lastPublishedBtStatus
    THEN Emit([s EXCEPT !.lastPublishedBtStatus = s.lastBtStatus],
              <<"mqtt.publish", "bt_status", s.lastBtStatus>>)
    ELSE s

\* setBtStatus(status, detail): record the status string and keep the detail
\* of a failure as last_error.  The detail "attempt_<n>" is the number n; 0 is
\* the default empty detail.  The call is noted in the log of the step.
setBtStatus(s, status, detail) ==
    Emit([s EXCEPT !.lastBtStatus = status,
                   !.btStats.lastError = IF detail = 0 THEN @ ELSE detail],
         <<"status", status, "">>)

----------------------------------------------------------------------------
(* bluetooth.cpp *)

\* faulty variant of resetPairing: the hold-off is set only when a link was
\* open
resetPairing_HoldOffIfConnected(s) ==
    LET s1 == PutPaired([s EXCEPT !.isPaired = FALSE], FALSE)
        s2 == Emit(s1, <<"bt.remove_bond", "address", "">>)
        s3 == IF s2.btConnected
              THEN Emit([s2 EXCEPT !.linkUp = FALSE, !.btConnected = FALSE,
                                   !.reconnectHoldOffUntil = s2.now + HOLD_OFF_MS],
                        <<"bt.disconnect", "", "">>)
              ELSE s2
    IN  setBtStatus(s3, "pairing_reset", 0)

\* faulty variant of resetPairing: the flag is cleared in memory only
resetPairing_NoPersist(s) ==
    LET s1 == Emit([s EXCEPT !.isPaired = FALSE], <<"bt.remove_bond", "address", "">>)
        s2 == IF s1.btConnected
              THEN Emit([s1 EXCEPT !.linkUp = FALSE, !.btConnected = FALSE],
                        <<"bt.disconnect", "", "">>)
              ELSE s1
        s3 == [s2 EXCEPT !.reconnectHoldOffUntil = s2.now + HOLD_OFF_MS]
    IN  setBtStatus(s3, "pairing_reset", 0)

\* resetPairing()
resetPairing(s) ==
    LET s1 == PutPaired([s EXCEPT !.isPaired = FALSE], FALSE)
        s2 == IF SOUNDBAR_ADDRESS_VALID
              THEN Emit(s1, <<"bt.remove_bond", "address", "">>)
              ELSE s1
        s3 == IF s2.btConnected
              THEN Emit([s2 EXCEPT !.linkUp = FALSE, !.btConnected = FALSE],
                        <<"bt.disconnect", "", "">>)
              ELSE s2
        s4 == [s3 EXCEPT !.reconnectHoldOffUntil = s3.now + HOLD_OFF_MS]
    IN  setBtStatus(s4, "pairing_reset", 0)

\* Outcome of the connect calls of one attempt: 0 none succeeds, 1..3 the
\* address connect with that number succeeds, 4 the connect by name succeeds.
NameOk == MAC_ATTEMPTS + 1
Outcomes == 0..NameOk

\* what SerialBT.connect() returned, as the log of the step notes it
ConnectResult(ok) == IF ok THEN "ok" ELSE "failed"

\* SerialBT.hasClient() and what it returned, as the log of the step notes it
hasClient(stale) ==
    <<"bt.hasClient", IF stale THEN "true" ELSE "false", "">>

\* faulty variant of MacTries: the loop does not stop at a success
MacTries_NoEarlyStop(okAt) ==
    IF ~SOUNDBAR_ADDRESS_VALID THEN 0 ELSE MAC_ATTEMPTS

\* address connects made (the for loop stops at the first success)
MacTries(okAt) ==
    IF ~SOUNDBAR_ADDRESS_VALID THEN 0
    ELSE IF okAt \in 1..MAC_ATTEMPTS THEN okAt ELSE MAC_ATTEMPTS

\* delay(2000) follows every failed address connect but the third
MacRetryDelays(okAt) ==
    IF ~SOUNDBAR_ADDRESS_VALID THEN 0
    ELSE IF okAt \in 1..MAC_ATTEMPTS THEN okAt - 1 ELSE MAC_ATTEMPTS - 1

\* the result of the connect calls: `connected` of connectBluetooth
Connected(okAt) ==
    IF SOUNDBAR_ADDRESS_VALID THEN okAt # 0 ELSE okAt = NameOk

\* connectBluetooth(), lines 180-223: stale client, "connecting", the
\* address attempts, the fallback by name, the duration
connectAttempt(s, stale, okAt) ==
    LET s0 == Emit(s, hasClient(stale))
        s1 == IF stale
              THEN Delay(Emit(s0, <<"bt.disconnect", "", "">>), STALE_SETTLE_MS)
              ELSE s0
        s2 == setBtStatus(s1, "connecting", 0)
        connectStart == s2.now
        byAddr == [i \in 1..MacTries(okAt) |->
                      <<"bt.connect", "address", ConnectResult(i = okAt)>>]
        byName == IF Connected(okAt) /\ okAt \in 1..MAC_ATTEMPTS
                      /\ SOUNDBAR_ADDRESS_VALID
                  THEN <<>>
                  ELSE << <<"bt.connect", "name",
                            ConnectResult(okAt = NameOk)>> >>
        s3 == [s2 EXCEPT !.io = @ \o byAddr \o byName,
                         !.now = @ + MacRetryDelays(okAt) * MAC_RETRY_DELAY_MS,
                         !.linkUp = Connected(okAt)]
    IN  [s3 EXCEPT !.btStats.lastConnectDuration = s3.now - connectStart]

\* faulty variant of connectSucceeded: the paired flag is set in memory but
\* not written to the store
connectSucceeded_NoPersist(s) ==
    LET s1 == [s EXCEPT !.btStats.connectSuccesses = @ + 1,
                        !.btStats.connectedSince = s.now,
                        !.btConnected = TRUE,
                        !.isPaired = TRUE,
                        !.conn = "ok"]
        s2 == setBtStatus(s1, "connected", 0)
    IN  IF s2.mqttUp THEN PublishAvailable(s2, "online") ELSE s2

\* connectBluetooth(), lines 225-246: the attempt succeeded
connectSucceeded(s) ==
    LET s1 == [s EXCEPT !.btStats.connectSuccesses = @ + 1,
                        !.btStats.connectedSince = s.now,
                        !.btConnected = TRUE,
                        !.conn = "ok"]
        s2 == IF ~s1.isPaired
              THEN PutPaired([s1 EXCEPT !.isPaired = TRUE], TRUE)
              ELSE s1
        s3 == setBtStatus(s2, "connected", 0)
    IN  IF s3.mqttUp THEN PublishAvailable(s3, "online") ELSE s3

\* faulty variant of connectFailed: a failure forgets the pairing
connectFailed_Unpairs(s) ==
    LET s1 == [s EXCEPT !.btStats.connectFailures = @ + 1,
                        !.btConnected = FALSE,
                        !.isPaired = FALSE,
                        !.conn = "fail"]
        s2 == setBtStatus(s1, "connect_failed", s1.btStats.connectAttempts)
    IN  IF s2.mqttUp THEN PublishAvailable(s2, "offline") ELSE s2

\* connectBluetooth(), lines 247-261: the attempt failed
connectFailed(s) ==
    LET s1 == [s EXCEPT !.btStats.connectFailures = @ + 1,
                        !.btConnected = FALSE,
                        !.conn = "fail"]
        s2 == setBtStatus(s1, "connect_failed", s1.btStats.connectAttempts)
    IN  IF s2.mqttUp THEN PublishAvailable(s2, "offline") ELSE s2

\* connectBluetooth(), lines 166-173: the attempt is counted before the
\* already-connected test
connectEntry(s) ==
    [s EXCEPT !.lastBtConnectAttempt = s.now,
              !.btStats.connectAttempts = @ + 1]

\* faulty variant of connectBluetooth: an open link is closed and opened again
connectBluetooth_Reopens(s, stale, okAt) ==
    LET s1 == connectEntry(s)
        s2 == IF s1.linkUp
              THEN Emit([s1 EXCEPT !.linkUp = FALSE], <<"bt.disconnect", "", "">>)
              ELSE s1
        s3 == connectAttempt(s2, stale, okAt)
    IN  IF s3.linkUp THEN connectSucceeded(s3) ELSE connectFailed(s3)

\* faulty variant of connectBluetooth: finding the link open counts as a
\* success
connectBluetooth_CountsAlready(s, stale, okAt) ==
    LET s1 == connectEntry(s)
    IN  IF s1.linkUp
        THEN [s1 EXCEPT !.btConnected = TRUE, !.conn = "already",
                        !.btStats.connectSuccesses = @ + 1]
        ELSE LET s2 == connectAttempt(s1, stale, okAt)
             IN  IF s2.linkUp THEN connectSucceeded(s2) ELSE connectFailed(s2)

\* connectBluetooth()
connectBluetooth(s, stale, okAt) ==
    LET s1 == connectEntry(s)
    IN  IF s1.linkUp
        THEN [s1 EXCEPT !.btConnected = TRUE, !.conn = "already"]
        ELSE LET s2 == connectAttempt(s1, stale, okAt)
             IN  IF s2.linkUp THEN connectSucceeded(s2) ELSE connectFailed(s2)

\* sendCommand(): SerialBT.write() is called with the frame of a known
\* command
sendCommand(s, c) ==
    IF encodeCommand(c) = <<>> THEN s ELSE Emit(s, <<"bt.write", c, "">>)

\* the value sendCommand() returns: the command is known and every byte of
\* the frame was written, which takes an open link
sent(s, c) == encodeCommand(c) # <<>> /\ s.linkUp

\* the value requestStatus() returns when the soundbar would answer reply:
\* the initial record when the request could not be written
heard(s, reply) == IF sent(s, "report_status") THEN reply ELSE NoReply

\* requestStatus(): report_status is sent, then the bytes of the answer are
\* read until the timeout or until the link has been silent for 100 ms (an
\* answer that does not decode is not modelled)
requestStatus(s, reply) ==
    LET s1 == sendCommand(s, "report_status")
    IN  IF ~sent(s, "report_status") THEN s1
        ELSE Delay(s1, IF reply.valid THEN RX_IDLE_MS
                                      ELSE STATUS_REQUEST_TIMEOUT_MS)

----------------------------------------------------------------------------
(* mqtt_client.cpp *)

OnOff(b) == IF b THEN "ON" ELSE "OFF"

\* the JSON document publishStatus() builds
StatusJson(status) ==
    [power |-> OnOff(status.power), input |-> status.input,
     muted |-> OnOff(status.muted), volume |-> status.volume,
     subwoofer |-> status.subwoofer, surround |-> status.surround,
     bass_ext |-> OnOff(status.bass_ext),
     clear_voice |-> OnOff(status.clear_voice)]

\* publishStatus()
publishStatus(s, status) ==
    IF ~s.mqttUp THEN s
    ELSE [Emit(s, <<"mqtt.publish", "state", "">>)
             EXCEPT !.pub = Append(@, StatusJson(status))]

\* faulty variant of keepStatus: the record is stored whether valid or not
keepStatus_Unchecked(s, status) ==
    [publishStatus(s, status) EXCEPT !.lastSoundbarStatus = status]

\* the end of connectMqtt, mqttCallback, setVolume and setSubwoofer: a valid
\* status replaces Last Known Status and is published
keepStatus(s, status) ==
    IF status.valid
    THEN publishStatus([s EXCEPT !.lastSoundbarStatus = status], status)
    ELSE s

\* connectMqtt()
connectMqtt(s, ok, reply) ==
    IF ok
    THEN LET s1 == PublishAvailable([s EXCEPT !.mqttUp = TRUE],
                       IF s.btConnected THEN "online" ELSE "offline")
             s2 == Emit(s1, <<"mqtt.publish", "discovery", "config">>)
             s3 == publishBtStatus([s2 EXCEPT !.lastPublishedBtStatus = ""])
         IN  IF s3.btConnected
             THEN keepStatus(requestStatus(s3, reply), heard(s3, reply))
             ELSE s3
    ELSE s

Abs(n) == IF n < 0 THEN -n ELSE n

\* the for loops of setVolume and setSubwoofer: n times sendCommand(c), delay(50)
toggles(s, c, n) ==
    [s EXCEPT !.io = @ \o [i \in 1..(2 * n) |->
                              IF i % 2 = 1 THEN <<"bt.write", c, "">>
                                           ELSE <<"delay", "50", "">>],
              !.now = @ + n * TOGGLE_DELAY_MS]

\* iterations of "for (i = 0; i < steps && i < cap; i++)"
LoopCount(steps, cap) == IF steps < cap THEN steps ELSE cap

\* faulty variant of setVolume: a failed first request counts as volume 0
setVolume_IgnoresInvalid(s, target, first, second) ==
    IF ~s.btConnected THEN s
    ELSE LET status == heard(s, first)
             s1 == [requestStatus(s, first) EXCEPT !.call = Call(target, status)]
             diff == target - status.volume
         IN  IF diff = 0 THEN s1
             ELSE LET c == IF diff > 0 THEN "volume_up" ELSE "volume_down"
                      steps == Abs(diff)
                      s2 == toggles(s1, c, LoopCount(steps, VOLUME_MAX_STEPS))
                      s3 == Delay(s2, SETTLE_MS)
                  IN  keepStatus(requestStatus(s3, second), heard(s3, second))

\* setVolume(targetVolume); first and second are what the soundbar answers
\* to the two status requests
setVolume(s, target, first, second) ==
    IF ~s.btConnected THEN s
    ELSE LET status == heard(s, first)
             s1 == [requestStatus(s, first) EXCEPT !.call = Call(target, status)]
             diff == target - status.volume
         IN  IF ~status.valid THEN s1
             ELSE IF diff = 0 THEN s1
             ELSE LET c == IF diff > 0 THEN "volume_up" ELSE "volume_down"
                      steps == Abs(diff)
                      s2 == toggles(s1, c, LoopCount(steps, VOLUME_MAX_STEPS))
                      s3 == Delay(s2, SETTLE_MS)
                  IN  keepStatus(requestStatus(s3, second), heard(s3, second))

\* faulty variant of setSubwoofer: the step count is rounded up
setSubwoofer_RoundsUp(s, target, first, second) ==
    IF ~s.btConnected THEN s
    ELSE LET status == heard(s, first)
             s1 == [requestStatus(s, first) EXCEPT !.call = Call(target, status)]
             diff == target - status.subwoofer
         IN  IF ~status.valid \/ diff = 0 THEN s1
             ELSE LET c == IF diff > 0 THEN "subwoofer_up" ELSE "subwoofer_down"
                      steps == (Abs(diff) + SUBWOOFER_STEP - 1) \div SUBWOOFER_STEP
                      s2 == toggles(s1, c, LoopCount(steps, SUBWOOFER_MAX_STEPS))
                      s3 == Delay(s2, SETTLE_MS)
                  IN  keepStatus(requestStatus(s3, second), heard(s3, second))

\* setSubwoofer(targetSubwoofer)
setSubwoofer(s, target, first, second) ==
    IF ~s.btConnected THEN s
    ELSE LET status == heard(s, first)
             s1 == [requestStatus(s, first) EXCEPT !.call = Call(target, status)]
             diff == target - status.subwoofer
         IN  IF ~status.valid THEN s1
             ELSE IF diff = 0 THEN s1
             ELSE LET c == IF diff > 0 THEN "subwoofer_up" ELSE "subwoofer_down"
                      steps == Abs(diff) \div SUBWOOFER_STEP
                      s2 == toggles(s1, c, LoopCount(steps, SUBWOOFER_MAX_STEPS))
                      s3 == Delay(s2, SETTLE_MS)
                  IN  keepStatus(requestStatus(s3, second), heard(s3, second))

\* faulty variant of commandMessage: the name is not validated and the
\* result of sendCommand is not looked at
commandMessage_Unchecked(s, c, reply) ==
    LET s1 == sendCommand(s, c)
        s2 == Delay(s1, COMMAND_SETTLE_MS)
    IN  keepStatus(requestStatus(s2, reply), heard(s2, reply))

\* mqttCallback(), lines 67-78: a message on MQTT_COMMAND_TOPIC
commandMessage(s, c, reply) ==
    IF isValidCommand(c)
    THEN LET s1 == sendCommand(s, c)
             s2 == Delay(s1, COMMAND_SETTLE_MS)
         IN  IF sent(s, c)
             THEN keepStatus(requestStatus(s2, reply), heard(s2, reply))
             ELSE s1
    ELSE s

----------------------------------------------------------------------------
(* main.cpp: start-up *)

\* The link before the first call of sendCommand(): the counters of btStats
\* are 0 and nothing has been written or received
LinkStart(arriving, read) ==
    /\ bytesSent = 0
    /\ bytesReceived = 0
    /\ wire = <<>>
    /\ result = FALSE
    /\ inbound = arriving
    /\ taken = 0
    /\ requestStart = 0
    /\ lastByteTime = 0
    /\ buffer = read
    /\ response = <<>>
    /\ rxStatus = UnknownStatus

LinkBoot == LinkStart(<<>>, <<>>)

\* State of the globals after construction (main.cpp:34-40, state.h:13-22);
\* first boot: the NVS key "paired" has never been written.
Globals ==
    /\ now = 0
    /\ linkUp = FALSE
    /\ mqttUp = FALSE
    /\ btConnected = FALSE
    /\ lastBtConnectAttempt = 0
    /\ reconnectHoldOffUntil = 0
    /\ isPaired = FALSE
    /\ prefsPaired = FALSE
    /\ btStats = BtStats0
    /\ lastBtStatus = "disconnected"
    /\ lastPublishedBtStatus = ""
    /\ lastStatusPoll = 0
    /\ lastSoundbarStatus = UnknownStatus
    /\ io = <<>>
    /\ pub = <<>>
    /\ conn = "none"
    /\ poll = NoPoll
    /\ call = NoCall
    /\ lastOp = "boot"
    /\ wifiGotIP = FALSE
    /\ hex = <<>>
    /\ bytes = <<>>

Boot == Globals /\ LinkBoot

Init ==
    /\ Boot /\ pc = "setup" /\ cmd = ""
    /\ addressValid = TRUE /\ apiKey = <<>>
    /\ device = Replies /\ pending = 0

\* is_paired is loaded once at startup from the persistent store
LoadPaired(s) == [s EXCEPT !.isPaired = s.prefsPaired]

\* setup(): the start delay, the wait for WiFi, then connectBluetooth() (the
\* radio was just started: no client is left over) and connectMqtt()
Setup ==
    /\ pc = "setup"
    /\ \E polls \in WifiPolls, okAt \in Outcomes, mqttOk \in BOOLEAN :
          LET s0 == Delay(Cur, SETUP_DELAY_MS + polls * WIFI_POLL_MS)
              s1 == LoadPaired(s0)
              s2 == connectBluetooth(s1, FALSE, okAt)
          IN  \E reply \in AnswersIn(s2, mqttOk /\ s2.btConnected) :
                  Write(connectMqtt(s2, mqttOk, reply))
    /\ wifiGotIP' = TRUE
    /\ UNCHANGED device
    /\ pc' = "tick"
    /\ lastOp' = "setup"

----------------------------------------------------------------------------
(* One tick of loop(): server.handleClient(), then mqtt.loop(), then the   *)
(* reconnect blocks.  pc = "tick" before handleClient(), "mqtt_loop"       *)
(* between an HTTP handler and mqtt.loop(), "reconnect" before line 135.   *)

\* handleClient() and mqtt.loop() with no request and no message pending
Idle ==
    /\ pc \in {"tick", "mqtt_loop"}
    /\ Become(Cur)
    /\ pc' = "reconnect"
    /\ lastOp' = "idle"

\* http_handlers.cpp handleResetPairing()
handleResetPairing ==
    /\ pc = "tick"
    /\ Become(Emit(resetPairing(Cur), <<"http.send", "200", "">>))
    /\ pc' = "mqtt_loop"
    /\ lastOp' = "handleResetPairing"

\* handleReconnect(): lines 166-167
ClearHoldOff(s) ==
    [s EXCEPT !.reconnectHoldOffUntil = 0, !.lastBtConnectAttempt = 0]

\* http_handlers.cpp handleReconnect()
handleReconnect ==
    /\ pc = "tick"
    /\ Become(Emit(ClearHoldOff(Cur), <<"http.send", "200", "">>))
    /\ pc' = "mqtt_loop"
    /\ lastOp' = "handleReconnect"

\* mqttCallback() with a message on MQTT_RESET_PAIRING_TOPIC
mqttResetPairing ==
    /\ pc \in {"tick", "mqtt_loop"}
    /\ mqttUp
    /\ Become(resetPairing(Cur))
    /\ pc' = "reconnect"
    /\ lastOp' = "mqttResetPairing"

\* payloads of MQTT_COMMAND_TOPIC, MQTT_VOLUME_TOPIC, MQTT_SUBWOOFER_TOPIC
CommandInputs == {"power_on", "volume"}
VolumeTargets == {0, 10, 15, 51}
SubwooferTargets == {0, 8, 10, 13, 33}

\* the state in which mqtt.loop() hands a message to mqttCallback()
Delivered == [Cur EXCEPT !.pending = @ - 1]

\* server.send(code, ...)
Respond(s, code) == Emit(s, <<"http.send", code, "">>)

\* a request the server hands to a handler, as the log of the step notes it
Request(path, arg) == <<"http.request", path, arg>>

\* faulty variant of getStatus: the request is made whatever btConnected is
getStatus_NoLinkCheck(s, reply) ==
    Respond(requestStatus(s, reply),
            IF heard(s, reply).valid THEN "200" ELSE "500")

\* handleStatus() for an authorised request
getStatus(s, reply) ==
    IF ~s.btConnected THEN Respond(s, "503")
    ELSE Respond(requestStatus(s, reply),
                 IF heard(s, reply).valid THEN "200" ELSE "500")

\* handleSendCommand() for an authorised request with the argument command
getSendCommand(s, c) ==
    IF ~isValidCommand(c) THEN Respond(s, "400")
    ELSE IF ~s.btConnected THEN Respond(s, "503")
    ELSE Respond(sendCommand(s, c), IF sent(s, c) THEN "200" ELSE "500")

\* http_handlers.cpp handleStatus()
handleStatus ==
    /\ pc = "tick"
    /\ pending > 0
    /\ \E reply \in Answers(btConnected) :
          Become(getStatus(Emit(Delivered, Request("status", "")), reply))
    /\ pc' = "mqtt_loop"
    /\ lastOp' = "handleStatus"

\* http_handlers.cpp handleSendCommand()
handleSendCommand ==
    /\ pc = "tick"
    /\ pending > 0
    /\ \E c \in CommandInputs :
          Become(getSendCommand(Emit(Delivered, Request("send_command", c)),
                                c))
    /\ pc' = "mqtt_loop"
    /\ lastOp' = "handleSendCommand"

\* mqttCallback(), lines 60-65: the message the broker delivered, as the log
\* of the step notes it
Received(topic, message) == <<"mqtt.message", topic, message>>

\* mqttCallback() with a message on MQTT_COMMAND_TOPIC
mqttCommand ==
    /\ pc \in {"tick", "mqtt_loop"}
    /\ mqttUp
    /\ pending > 0
    /\ \E c \in CommandInputs :
          \E reply \in Answers(isValidCommand(c)) :
              Become(commandMessage(Emit(Delivered, Received("command", c)),
                                    c, reply))
    /\ pc' = "reconnect"
    /\ lastOp' = "mqttCommand"

\* mqttCallback() with a message on MQTT_VOLUME_TOPIC
mqttSetVolume ==
    /\ pc \in {"tick", "mqtt_loop"}
    /\ mqttUp
    /\ pending > 0
    /\ \E target \in VolumeTargets :
          IF target >= 0 /\ target <= VOLUME_MAX
          THEN \E first \in Answers(btConnected) :
                   \E second \in Answers(first.valid /\ first.volume # target) :
                       Become(setVolume(Delivered, target, first, second))
          ELSE Become(Delivered)
    /\ pc' = "reconnect"
    /\ lastOp' = "mqttSetVolume"

\* mqttCallback() with a message on MQTT_SUBWOOFER_TOPIC
mqttSetSubwoofer ==
    /\ pc \in {"tick", "mqtt_loop"}
    /\ mqttUp
    /\ pending > 0
    /\ \E target \in SubwooferTargets :
          IF target >= 0 /\ target <= SUBWOOFER_MAX
          THEN \E first \in Answers(btConnected) :
                   \E second \in Answers(first.valid
                                           /\ first.subwoofer # target) :
                       Become(setSubwoofer(Delivered, target, first, second))
          ELSE Become(Delivered)
    /\ pc' = "reconnect"
    /\ lastOp' = "mqttSetSubwoofer"

\* mqttCallback() with a message on MQTT_RESTART_TOPIC: ESP.restart().  RAM
\* and the radio are reset, the NVS key stays, the broker publishes the last
\* will.
mqttRestart ==
    /\ pc \in {"tick", "mqtt_loop"}
    /\ mqttUp
    /\ now' = 0
    /\ pc' = "setup"
    /\ linkUp' = FALSE
    /\ mqttUp' = FALSE
    /\ btConnected' = FALSE
    /\ lastBtConnectAttempt' = 0
    /\ reconnectHoldOffUntil' = 0
    /\ isPaired' = FALSE
    /\ prefsPaired' = prefsPaired
    /\ btStats' = BtStats0
    /\ lastBtStatus' = "disconnected"
    /\ lastPublishedBtStatus' = ""
    /\ lastStatusPoll' = 0
    /\ lastSoundbarStatus' = UnknownStatus
    /\ wifiGotIP' = FALSE
    /\ io' = <<>>
    /\ pub' = <<>>
    /\ conn' = "none"
    /\ poll' = NoPoll
    /\ call' = NoCall
    /\ lastOp' = "restart"
    /\ UNCHANGED <<addressValid, apiKey, device, pending, codecVars, linkVars>>

\* faulty variant of LinkDown: only the loss of a recorded connection counts
LinkDown_OnEdgeOnly(s) == s.btConnected /\ ~s.linkUp

\* main.cpp line 135: the link is not known to be up
LinkDown(s) == ~s.btConnected \/ ~s.linkUp

\* faulty variant of ReconnectDue: the comparison is not strict
ReconnectDue_NotStrict(s) ==
    s.now - s.lastBtConnectAttempt >= BT_RECONNECT_DELAY_MS

\* main.cpp line 137: the backoff since the last attempt has passed
ReconnectDue(s) == s.now - s.lastBtConnectAttempt > BT_RECONNECT_DELAY_MS

\* main.cpp lines 135-140
loopBluetooth(s, stale, okAt) ==
    IF LinkDown(s)
    THEN LET s1 == [s EXCEPT !.btConnected = FALSE]
         IN  IF ReconnectDue(s1)
             THEN connectBluetooth(s1, stale, okAt)
             ELSE s1
    ELSE s

\* main.cpp line 142
MqttReconnectDue(s) ==
    ~s.mqttUp /\ s.now - lastMqttConnectAttempt > MQTT_RECONNECT_DELAY_MS

\* main.cpp lines 142-144
loopMqtt(s, ok, reply) ==
    IF MqttReconnectDue(s) THEN connectMqtt(s, ok, reply) ELSE s

\* main.cpp line 147
PollDue(s) ==
    s.btConnected /\ s.now - s.lastStatusPoll > STATUS_POLL_INTERVAL_MS

\* faulty variant of StatusDiffers: every valid record counts as a change
StatusDiffers_Always(a, b) == TRUE

\* main.cpp lines 152-159
StatusDiffers(a, b) ==
    \/ a.power # b.power
    \/ a.input # b.input
    \/ a.muted # b.muted
    \/ a.volume # b.volume
    \/ a.subwoofer # b.subwoofer
    \/ a.surround # b.surround
    \/ a.bass_ext # b.bass_ext
    \/ a.clear_voice # b.clear_voice

\* faulty variant of loopPoll: the record of a failed request is stored
loopPoll_KeepsInvalid(s, reply) ==
    IF PollDue(s)
    THEN LET s1 == requestStatus([s EXCEPT !.lastStatusPoll = s.now], reply)
             status == heard(s, reply)
         IN  IF StatusDiffers(status, s1.lastSoundbarStatus)
             THEN publishStatus([s1 EXCEPT !.lastSoundbarStatus = status,
                                           !.poll = Poll(IF status.valid
                                                         THEN "changed"
                                                         ELSE "invalid",
                                                         status)],
                                status)
             ELSE [s1 EXCEPT !.poll = Poll(IF status.valid THEN "same"
                                                           ELSE "invalid",
                                                           status)]
    ELSE s

\* main.cpp lines 147-164: the periodic poll
loopPoll(s, reply) ==
    IF PollDue(s)
    THEN LET s1 == requestStatus([s EXCEPT !.lastStatusPoll = s.now], reply)
             status == heard(s, reply)
         IN  IF status.valid
             THEN IF StatusDiffers(status, s1.lastSoundbarStatus)
                  THEN publishStatus([s1 EXCEPT !.lastSoundbarStatus = status,
                                                !.poll = Poll("changed",
                                                              status)],
                                     status)
                  ELSE [s1 EXCEPT !.poll = Poll("same", status)]
             ELSE [s1 EXCEPT !.poll = Poll("invalid", status)]
    ELSE s

\* the tick calls connectBluetooth()
WillConnect == LinkDown(Cur) /\ ReconnectDue(Cur)

\* main.cpp lines 141-164: the MQTT block and the periodic poll of a tick
\* whose Bluetooth block left the state s
loopRest(s, mqttOk) ==
    \E greeting \in AnswersIn(s, MqttReconnectDue(s) /\ mqttOk /\ s.btConnected) :
        LET s1 == loopMqtt(s, mqttOk, greeting)
        IN  \E reply \in AnswersIn(s1, PollDue(s1)) :
                Become(loopPoll(s1, reply))

\* main.cpp lines 135-164 in a tick that does not call connectBluetooth()
LoopQuiet ==
    /\ pc = "reconnect"
    /\ ~WillConnect
    /\ \E mqttOk \in BOOLEAN : loopRest(loopBluetooth(Cur, FALSE, 0), mqttOk)
    /\ pc' = "tick"
    /\ lastOp' = "loop"

\* main.cpp lines 135-164 in a tick that calls connectBluetooth()
LoopConnect ==
    /\ pc = "reconnect"
    /\ WillConnect
    /\ btStats.connectAttempts < MaxAttempts
    /\ \E stale \in BOOLEAN, okAt \in Outcomes, mqttOk \in BOOLEAN :
          loopRest(loopBluetooth(Cur, stale, okAt), mqttOk)
    /\ pc' = "tick"
    /\ lastOp' = "loop"

----------------------------------------------------------------------------
(* Environment *)

\* time passes between two ticks
Advance ==
    /\ pc = "tick"
    /\ now < MaxSteps * StepMs
    /\ Become([Cur EXCEPT !.now = (now \div StepMs + 1) * StepMs])
    /\ lastOp' = "env"
    /\ UNCHANGED pc

\* ESP_SPP_CLOSE_EVT: the link is lost
LinkLost ==
    /\ linkUp
    /\ Become([Cur EXCEPT !.linkUp = FALSE])
    /\ lastOp' = "env"
    /\ UNCHANGED pc

\* ESP_SPP_OPEN_EVT after connect() gave up waiting: the link opens late
LinkOpened ==
    /\ ~linkUp
    /\ lastBtStatus = "connect_failed"
    /\ Become([Cur EXCEPT !.linkUp = TRUE])
    /\ lastOp' = "env"
    /\ UNCHANGED pc

\* the broker connection drops; the broker publishes the last will
MqttLost ==
    /\ mqttUp
    /\ now < MaxSteps * StepMs
    /\ Become([Cur EXCEPT !.mqttUp = FALSE])
    /\ lastOp' = "env"
    /\ UNCHANGED pc

----------------------------------------------------------------------------

Next ==
    \/ Setup
    \/ Idle
    \/ handleResetPairing
    \/ handleReconnect
    \/ mqttResetPairing
    \/ mqttRestart
    \/ LoopQuiet
    \/ LoopConnect
    \/ Advance
    \/ LinkLost
    \/ LinkOpened
    \/ MqttLost

Spec == Init /\ [][Next]_vars

\* the reconnect part of a tick is waiting to run
LoopPending ==
    pc = "reconnect" /\ (WillConnect => btStats.connectAttempts < MaxAttempts)

\* The scheduler keeps calling loop() (setup() once, then tick after tick) and
\* the clock keeps running: the hypotheses of the liveness claims.  A step of
\* LoopQuiet or LoopConnect is the only way out of LoopPending, so
\* []<>~LoopPending is WF_vars(LoopQuiet \/ LoopConnect).
LiveSpec ==
    /\ Init /\ [][Next]_vars
    /\ WF_vars(Setup)
    /\ WF_vars(Idle)
    /\ []<>~LoopPending
    /\ SF_vars(Advance)

----------------------------------------------------------------------------------------------------------------------------------------------------
(* The status side: the same program with a soundbar that answers.  Neither  *)
(* the link nor the broker is lost once it is connected (either may fail to  *)
(* connect), and no pairing reset, manual reconnect or restart is requested. *)

\* the answers of the soundbar to the periodic poll: Report(10, 8), a record
\* that differs from it in one field for each of the eight fields, the valid
\* record whose fields all decode to the initial values, and no answer
Soundbar ==
    LET base == Report(10, 8)
    IN  {NoReply, base, [UnknownStatus EXCEPT !.valid = TRUE],
         [base EXCEPT !.power = FALSE], [base EXCEPT !.input = "bluetooth"],
         [base EXCEPT !.muted = TRUE], [base EXCEPT !.volume = 15],
         [base EXCEPT !.subwoofer = 12], [base EXCEPT !.surround = "3d"],
         [base EXCEPT !.bass_ext = TRUE], [base EXCEPT !.clear_voice = TRUE]}

PollInit ==
    /\ addressValid = TRUE /\ apiKey = <<>>
    /\ Boot /\ pc = "setup" /\ cmd = ""
    /\ device = Soundbar /\ pending = 0

PollNext ==
    \/ Setup
    \/ Idle
    \/ LoopQuiet
    \/ LoopConnect
    \/ Advance

PollSpec == PollInit /\ [][PollNext]_vars

\* the answers of the soundbar while messages of the control topics are
\* delivered: levels near the targets, levels further from every target than
\* the loops of setVolume and setSubwoofer go, and no answer
Levels == {NoReply, Report(10, 8), Report(70, 64)}

StatusInit ==
    /\ addressValid = TRUE /\ apiKey = <<>>
    /\ Boot /\ pc = "setup" /\ cmd = ""
    /\ device = Levels /\ pending = MaxMessages

StatusNext ==
    \/ Setup
    \/ Idle
    \/ mqttCommand
    \/ mqttSetVolume
    \/ mqttSetSubwoofer
    \/ LoopQuiet
    \/ LoopConnect
    \/ Advance

StatusSpec == StatusInit /\ [][StatusNext]_vars

----------------------------------------------------------------------------
(* The connect attempts on their own: setup() and the reconnect block of     *)
(* loop(), for a build with an address that parses and for one without, a    *)
(* soundbar that does not answer status requests, and a broker that is       *)
(* reached by setup() or not.                                                *)

ConnectInit ==
    /\ addressValid \in BOOLEAN /\ apiKey = <<>>
    /\ Boot /\ pc = "setup" /\ cmd = ""
    /\ device = Replies /\ pending = 0

ConnectNext ==
    \/ Setup
    \/ Idle
    \/ LoopQuiet
    \/ LoopConnect
    \/ Advance
    \/ LinkLost

ConnectSpec == ConnectInit /\ [][ConnectNext]_vars

----------------------------------------------------------------------------
(* The synchronous requests: GET /status and GET /send_command arrive at a   *)
(* bridge whose soundbar is connected, was never reached or has dropped the  *)
(* link.                                                                     *)

HttpInit ==
    /\ addressValid = TRUE /\ apiKey = <<>>
    /\ Boot /\ pc = "setup" /\ cmd = ""
    /\ device = Levels /\ pending = MaxMessages

\* the reconnect block is left out: a bridge that lost the soundbar stays
\* without it
HttpNext ==
    \/ Setup
    \/ Idle
    \/ handleStatus
    \/ handleSendCommand
    \/ LoopQuiet
    \/ LinkLost

HttpSpec == HttpInit /\ [][HttpNext]_vars

----------------------------------------------------------------------------
(* The callbacks that run outside loop(): gapCallback() and btCallback() in *)
(* the task of the Bluetooth stack, WiFiEvent() in the task of the WiFi     *)
(* events.  They may run between any two operations of the loop task.       *)

\* the events gapCallback() tells apart (the last stands for the default
\* branch)
GapEvents ==
    {"AUTH_CMPL_SUCCESS", "AUTH_CMPL_FAIL", "PIN_REQ", "CFM_REQ", "KEY_NOTIF",
     "KEY_REQ", "MODE_CHG", "DISC_RES", "DISC_STATE_CHANGED", "OTHER"}

\* the events btCallback() tells apart
SppEvents == {"INIT", "OPEN", "CLOSE", "OTHER"}

\* the events WiFiEvent() tells apart
WiFiEvents == {"STA_GOT_IP", "STA_DISCONNECTED", "OTHER"}

\* esp_bt_gap_pin_reply(bda, true, 4, pin) with pin = {'1', '2', '3', '4'}
PinReply == <<"bt.pin_reply", "accept", "1234">>

\* esp_bt_gap_ssp_confirm_reply(bda, true)
ConfirmReply == <<"bt.ssp_confirm_reply", "accept", "">>

\* faulty variant of gapCallback: a completed authentication marks the
\* soundbar as paired
gapCallback_MarksPaired(s, event) ==
    IF event = "AUTH_CMPL_SUCCESS" THEN PutPaired([s EXCEPT !.isPaired = TRUE], TRUE)
    ELSE IF event = "PIN_REQ" THEN Emit(s, PinReply)
    ELSE IF event = "CFM_REQ" THEN Emit(s, ConfirmReply)
    ELSE s

\* gapCallback(): every other branch only writes the debug log
gapCallback(s, event) ==
    IF event = "PIN_REQ" THEN Emit(s, PinReply)
    ELSE IF event = "CFM_REQ" THEN Emit(s, ConfirmReply)
    ELSE s

\* faulty variant of btCallback: the flag follows the events of the link
btCallback_TracksLink(s, event) ==
    IF event = "OPEN" THEN [s EXCEPT !.btConnected = TRUE]
    ELSE IF event = "CLOSE" THEN [s EXCEPT !.btConnected = FALSE]
    ELSE s

\* btCallback(): every branch only writes the debug log
btCallback(s, event) == s

\* WiFiEvent(): the value it leaves in wifiGotIP
WiFiEvent(gotIP, event) ==
    IF event = "STA_GOT_IP" THEN TRUE
    ELSE IF event = "STA_DISCONNECTED" THEN FALSE
    ELSE gotIP

\* the Bluetooth stack calls gapCallback()
gapEvent ==
    /\ pc # "setup"
    /\ \E event \in GapEvents :
          Become(gapCallback(Emit(Cur, <<"bt.gap", event, "">>), event))
    /\ lastOp' = "gapCallback"
    /\ UNCHANGED pc

\* the Bluetooth stack calls btCallback(): the link has closed, it has opened
\* after connect() gave up waiting, or the event is about neither
sppEvent ==
    /\ pc # "setup"
    /\ \E event \in SppEvents :
          /\ event = "CLOSE" => linkUp
          /\ event = "OPEN" => ~linkUp /\ lastBtStatus = "connect_failed"
          /\ LET s == [Cur EXCEPT !.linkUp = IF event = "CLOSE" THEN FALSE
                                           ELSE IF event = "OPEN" THEN TRUE
                                           ELSE @]
             IN  Become(btCallback(Emit(s, <<"bt.spp", event, "">>), event))
    /\ lastOp' = "btCallback"
    /\ UNCHANGED pc

\* the WiFi stack calls WiFiEvent()
wifiEvent ==
    /\ pc # "setup"
    /\ \E event \in WiFiEvents :
          /\ Write(Emit(Cur, <<"wifi.event", event, "">>))
          /\ wifiGotIP' = WiFiEvent(wifiGotIP, event)
    /\ UNCHANGED device
    /\ lastOp' = "WiFiEvent"
    /\ UNCHANGED pc

CallbackInit ==
    /\ addressValid = TRUE /\ apiKey = <<>>
    /\ Boot /\ pc = "setup" /\ cmd = ""
    /\ device = Replies /\ pending = MaxMessages

\* the control operations of a tick and the callbacks between them
CallbackNext ==
    \/ Setup
    \/ Idle
    \/ handleResetPairing
    \/ handleSendCommand
    \/ mqttSetVolume
    \/ LoopQuiet
    \/ LoopConnect
    \/ gapEvent
    \/ sppEvent
    \/ wifiEvent

CallbackSpec == CallbackInit /\ [][CallbackNext]_vars

----------------------------------------------------------------------------
(* The paths to the link: every handler that can reach sendCommand() or     *)
(* requestStatus(), at a bridge whose soundbar is connected, was not        *)
(* reached, or opened the link after connect() had given up.                *)

GuardInit ==
    /\ addressValid = TRUE /\ apiKey = <<>>
    /\ Boot /\ pc = "setup" /\ cmd = ""
    /\ device = {NoReply, Report(10, 8)} /\ pending = MaxMessages

GuardNext ==
    \/ Setup
    \/ Idle
    \/ handleStatus
    \/ handleSendCommand
    \/ mqttCommand
    \/ mqttSetVolume
    \/ mqttSetSubwoofer
    \/ LoopQuiet
    \/ LinkOpened
    \/ LinkLost

GuardSpec == GuardInit /\ [][GuardNext]_vars

----------------------------------------------------------------------------
(* Convergence against a soundbar that keeps its levels: device holds the   *)
(* one record the soundbar reports, every status request is answered with  *)
(* it, and every toggle the open link takes moves a level by one step       *)
(* within its range (1 for the volume, SUBWOOFER_STEP for the subwoofer).   *)

\* a level after n toggles up or down: a toggle that would leave the range
\* is not followed
Up(x, n, step, max) ==
    LET room == (max - x) \div step
    IN  x + step * (IF n < room THEN n ELSE room)

Down(x, n, step) ==
    LET room == x \div step
    IN  x - step * (IF n < room THEN n ELSE room)

\* the writes of the command c in a log
Counted(log, c) ==
    Len(SelectSeq(log, LAMBDA e : e[1] = "bt.write" /\ e[2] = c))

\* the soundbar after the writes of a log (the writes of one call all go
\* the same way)
Played(r, log) ==
    [r EXCEPT !.volume = Down(Up(@, Counted(log, "volume_up"), 1, VOLUME_MAX),
                              Counted(log, "volume_down"), 1),
              !.subwoofer = Down(Up(@, Counted(log, "subwoofer_up"),
                                    SUBWOOFER_STEP, SUBWOOFER_MAX),
                                 Counted(log, "subwoofer_down"),
                                 SUBWOOFER_STEP)]

\* the record the soundbar reports
Level == CHOOSE r \in device : TRUE

\* levels the soundbar starts with, and the targets asked for
StartVolumes == {0, 10, 47, 50}
StartSubwoofers == {0, 8, 30, 32}
ConvergeVolumes == {0, 10, 13, 50, 51}
ConvergeSubwoofers == {0, 8, 10, 13, 32, 33}

ConvergeInit ==
    /\ addressValid = TRUE /\ apiKey = <<>>
    /\ Boot /\ pc = "setup" /\ cmd = ""
    /\ device \in {{Report(v, sw)} : v \in StartVolumes, sw \in StartSubwoofers}
    /\ pending = MaxMessages

\* mqttCallback() with a message on MQTT_VOLUME_TOPIC; the soundbar answers
\* the first request with its levels, plays the toggles, then answers the
\* second request
convergeVolume ==
    /\ pc \in {"tick", "mqtt_loop"}
    /\ mqttUp
    /\ pending > 0
    /\ \E target \in ConvergeVolumes :
          IF target >= 0 /\ target <= VOLUME_MAX
          THEN LET played == IF linkUp
                             THEN Played(Level, setVolume(Delivered, target,
                                                          Level, Level).io)
                             ELSE Level
               IN  /\ Write(setVolume(Delivered, target, Level, played))
                   /\ device' = {played}
          ELSE Write(Delivered) /\ UNCHANGED device
    /\ UNCHANGED wifiGotIP
    /\ pc' = "reconnect"
    /\ lastOp' = "mqttSetVolume"

\* mqttCallback() with a message on MQTT_SUBWOOFER_TOPIC
convergeSubwoofer ==
    /\ pc \in {"tick", "mqtt_loop"}
    /\ mqttUp
    /\ pending > 0
    /\ \E target \in ConvergeSubwoofers :
          IF target >= 0 /\ target <= SUBWOOFER_MAX
          THEN LET played == IF linkUp
                             THEN Played(Level, setSubwoofer(Delivered, target,
                                                             Level, Level).io)
                             ELSE Level
               IN  /\ Write(setSubwoofer(Delivered, target, Level, played))
                   /\ device' = {played}
          ELSE Write(Delivered) /\ UNCHANGED device
    /\ UNCHANGED wifiGotIP
    /\ pc' = "reconnect"
    /\ lastOp' = "mqttSetSubwoofer"

ConvergeNext ==
    \/ Setup
    \/ Idle
    \/ convergeVolume
    \/ convergeSubwoofer
    \/ LoopQuiet
    \/ Advance

ConvergeSpec == ConvergeInit /\ [][ConvergeNext]_vars

----------------------------------------------------------------------------
(* The payloads of the set-value topics.  A payload is the sequence of its *)
(* characters; String::toInt() is atol(): leading white space, an optional *)
(* sign, then the digits up to the first character that is not one, and 0  *)
(* when there is no digit.                                                 *)

\* the value of a digit, -1 for any other character
DigitValue(ch) ==
    CASE ch = "0" -> 0 [] ch = "1" -> 1 [] ch = "2" -> 2 [] ch = "3" -> 3
      [] ch = "4" -> 4 [] ch = "5" -> 5 [] ch = "6" -> 6 [] ch = "7" -> 7
      [] ch = "8" -> 8 [] ch = "9" -> 9 [] OTHER -> -1

\* the number the leading digits of p continue acc to
RECURSIVE LeadingDigits(_, _)
LeadingDigits(p, acc) ==
    IF p = <<>> \/ DigitValue(Head(p)) < 0 THEN acc
    ELSE LeadingDigits(Tail(p), 10 * acc + DigitValue(Head(p)))

RECURSIVE SkipSpace(_)
SkipSpace(p) == IF p # <<>> /\ Head(p) = " " THEN SkipSpace(Tail(p)) ELSE p

\* message.toInt()
toInt(p) ==
    LET q == SkipSpace(p)
    IN  IF q = <<>> THEN 0
        ELSE IF Head(q) = "-" THEN 0 - LeadingDigits(Tail(q), 0)
        ELSE IF Head(q) = "+" THEN LeadingDigits(Tail(q), 0)
        ELSE LeadingDigits(q, 0)

\* payloads of MQTT_VOLUME_TOPIC and MQTT_SUBWOOFER_TOPIC
Payloads ==
    {<<>>, <<"0">>, <<"1", "3">>, <<"3", "2">>, <<"3", "3">>, <<"5", "0">>,
     <<"5", "1">>, <<"-", "1">>, <<"o", "f", "f">>, <<"1", "2", "a">>,
     <<"1", ".", "5">>, <<" ", "7">>}

PayloadInit ==
    /\ addressValid = TRUE /\ apiKey = <<>>
    /\ Boot /\ pc = "setup" /\ cmd = ""
    /\ device = {NoReply, Report(10, 8)} /\ pending = MaxMessages

\* mqttCallback() with a message on MQTT_VOLUME_TOPIC
volumeMessage ==
    /\ pc \in {"tick", "mqtt_loop"}
    /\ mqttUp
    /\ pending > 0
    /\ \E payload \in Payloads :
          LET s == Emit(Delivered, Received("set_volume", payload))
              target == toInt(payload)
          IN  IF target >= 0 /\ target <= VOLUME_MAX
              THEN \E first \in Answers(btConnected) :
                     \E second \in Answers(first.valid /\ first.volume # target) :
                         Become(setVolume(s, target, first, second))
              ELSE Become(s)
    /\ pc' = "reconnect"
    /\ lastOp' = "volumeMessage"

\* mqttCallback() with a message on MQTT_SUBWOOFER_TOPIC
subwooferMessage ==
    /\ pc \in {"tick", "mqtt_loop"}
    /\ mqttUp
    /\ pending > 0
    /\ \E payload \in Payloads :
          LET s == Emit(Delivered, Received("set_subwoofer", payload))
              target == toInt(payload)
          IN  IF target >= 0 /\ target <= SUBWOOFER_MAX
              THEN \E first \in Answers(btConnected) :
                     \E second \in Answers(first.valid
                                             /\ first.subwoofer # target) :
                         Become(setSubwoofer(s, target, first, second))
              ELSE Become(s)
    /\ pc' = "reconnect"
    /\ lastOp' = "subwooferMessage"

PayloadNext ==
    \/ Setup
    \/ Idle
    \/ volumeMessage
    \/ subwooferMessage
    \/ LoopQuiet

PayloadSpec == PayloadInit /\ [][PayloadNext]_vars

----------------------------------------------------------------------------
(* The poller while the broker is away: a soundbar that keeps one state and *)
(* answers a status request with it or not at all, and a broker that is     *)
(* reached by setup() or later, and may drop.                               *)

\* the one record the soundbar reports
Steady == Report(10, 8)

TelemetryInit ==
    /\ addressValid = TRUE /\ apiKey = <<>>
    /\ Boot /\ pc = "setup" /\ cmd = ""
    /\ device = {NoReply, Steady} /\ pending = 0

TelemetryNext ==
    \/ Setup
    \/ Idle
    \/ LoopQuiet
    \/ Advance
    \/ MqttLost

TelemetrySpec == TelemetryInit /\ [][TelemetryNext]_vars

\* loop() is called again and again and millis() keeps running; the broker is
\* lost only as the network loses it, with no fairness
TelemetryLiveSpec ==
    /\ TelemetrySpec
    /\ WF_vars(Setup)
    /\ WF_vars(Idle)
    /\ WF_vars(LoopQuiet)
    /\ WF_vars(Advance)

----------------------------------------------------------------------------
(* The request/response API of a build with an API key and of one without. *)
(* Strings are the sequences of their characters.                          *)

Bearer == <<"B", "e", "a", "r", "e", "r", " ">>

\* String::startsWith()
startsWith(s, prefix) ==
    Len(s) >= Len(prefix) /\ SubSeq(s, 1, Len(prefix)) = prefix

\* the keys of the two builds and a key that is not configured
KeySet == <<"k", "9">>
KeyOther == <<"k", "8">>
ApiKeys == {<<>>, KeySet}

\* what a request carries: the Authorization header and the argument api_key
Carried(hasHeader, header, hasArg, arg) ==
    [hasHeader |-> hasHeader, header |-> header, hasArg |-> hasArg,
     arg |-> arg]

Headers ==
    {KeySet, KeyOther, Bearer \o KeySet, Bearer \o KeyOther, Bearer,
     <<"b", "e", "a", "r", "e", "r", " ">> \o KeySet, <<>>}

Credentials ==
    {Carried(FALSE, <<>>, FALSE, <<>>)}
        \cup {Carried(TRUE, h, FALSE, <<>>) : h \in Headers}
        \cup {Carried(FALSE, <<>>, TRUE, a) : a \in {KeySet, KeyOther, <<>>}}
        \cup {Carried(TRUE, h, TRUE, a) : h \in {KeyOther, Bearer \o KeySet},
                                           a \in {KeySet, KeyOther}}

\* faulty variant of checkAuth: any bearer token is taken
checkAuth_AnyBearer(key, cred) ==
    IF Len(key) = 0 THEN TRUE
    ELSE \/ cred.hasHeader
            /\ (startsWith(cred.header, Bearer) \/ cred.header = key)
         \/ cred.hasArg /\ cred.arg = key

\* checkAuth(): the value it returns (it has sent the 401 when FALSE)
checkAuth(key, cred) ==
    IF Len(key) = 0 THEN TRUE
    ELSE LET auth == IF startsWith(cred.header, Bearer)
                     THEN substring(cred.header, 7, Len(cred.header))
                     ELSE cred.header
         IN  \/ cred.hasHeader /\ auth = key
             \/ cred.hasArg /\ cred.arg = key

\* the routes of initHttpServer()
Paths ==
    {"/", "/status", "/send_command", "/debug", "/reset_pairing", "/reconnect"}

\* the handler of a route after checkAuth() has passed
serve(s, path, c, reply) ==
    CASE path = "/status" -> getStatus(s, reply)
      [] path = "/send_command" -> getSendCommand(s, c)
      [] path = "/reset_pairing" -> Respond(resetPairing(s), "200")
      [] path = "/reconnect" -> Respond(ClearHoldOff(s), "200")
      [] OTHER -> Respond(s, "200")

\* a handler of http_handlers.cpp, from its first line
handler(s, key, path, cred, c, reply) ==
    IF checkAuth(key, cred) THEN serve(s, path, c, reply)
    ELSE Respond(s, "401")

\* server.handleClient() with a request for one of the routes
handleClient ==
    /\ pc = "tick"
    /\ pending > 0
    /\ \E path \in Paths, cred \in Credentials, c \in CommandInputs :
          \E reply \in Answers(path = "/status" /\ btConnected
                                 /\ checkAuth(apiKey, cred)) :
              Become(handler(Emit(Delivered, Request(path, cred)), apiKey,
                             path, cred, c, reply))
    /\ pc' = "mqtt_loop"
    /\ lastOp' = "handleClient"

AuthInit ==
    /\ addressValid = TRUE
    /\ apiKey \in ApiKeys
    /\ Boot /\ pc = "setup" /\ cmd = ""
    /\ device = {NoReply, Steady} /\ pending = MaxMessages

AuthNext ==
    \/ Setup
    \/ Idle
    \/ handleClient
    \/ LoopQuiet

AuthSpec == AuthInit /\ [][AuthNext]_vars

----------------------------------------------------------------------------
(* Two periodic polls in a row that return the same record.  The bridge has  *)
(* run setup(), which connected the soundbar, and the clock has advanced;    *)
(* the broker was reached by setup() or not and may drop before or between   *)
(* the polls.  io and pub collect what the two polls emit.                   *)

\* the variables hold the state s
Holds(s) ==
    /\ now = s.now
    /\ linkUp = s.linkUp
    /\ mqttUp = s.mqttUp
    /\ btConnected = s.btConnected
    /\ lastBtConnectAttempt = s.lastBtConnectAttempt
    /\ reconnectHoldOffUntil = s.reconnectHoldOffUntil
    /\ isPaired = s.isPaired
    /\ prefsPaired = s.prefsPaired
    /\ btStats = s.btStats
    /\ lastBtStatus = s.lastBtStatus
    /\ lastPublishedBtStatus = s.lastPublishedBtStatus
    /\ lastStatusPoll = s.lastStatusPoll
    /\ lastSoundbarStatus = s.lastSoundbarStatus
    /\ pending = s.pending
    /\ io = s.io
    /\ pub = s.pub
    /\ conn = s.conn
    /\ poll = s.poll
    /\ call = s.call

\* the state Boot describes
BootState ==
    [now |-> 0, linkUp |-> FALSE, mqttUp |-> FALSE, btConnected |-> FALSE,
     lastBtConnectAttempt |-> 0, reconnectHoldOffUntil |-> 0,
     isPaired |-> FALSE, prefsPaired |-> FALSE, btStats |-> BtStats0,
     lastBtStatus |-> "disconnected", lastPublishedBtStatus |-> "",
     lastStatusPoll |-> 0, lastSoundbarStatus |-> UnknownStatus,
     pending |-> 0, io |-> <<>>, pub |-> <<>>, conn |-> "none",
     poll |-> NoPoll, call |-> NoCall]

\* the state after a setup() whose first address connect succeeded, at the
\* next step of the clock; greeting is what the status request of
\* connectMqtt returned
AfterSetup(polls, mqttOk, greeting) ==
    LET s0 == Delay(BootState, SETUP_DELAY_MS + polls * WIFI_POLL_MS)
        s1 == connectBluetooth(LoadPaired(s0), FALSE, 1)
        s2 == connectMqtt(s1, mqttOk, greeting)
    IN  [s2 EXCEPT !.now = (@ \div StepMs + 1) * StepMs,
                   !.io = <<>>, !.pub = <<>>, !.conn = "none"]

\* the valid answers of Soundbar
ValidAnswers == {r \in Soundbar : r.valid}

PairInit ==
    /\ addressValid = TRUE /\ apiKey = <<>>
    /\ wifiGotIP = TRUE
    /\ \E polls \in WifiPolls, mqttOk \in BOOLEAN, greeting \in Soundbar :
          Holds(AfterSetup(polls, mqttOk, greeting))
    /\ device \in {{r} : r \in ValidAnswers}
    /\ pc = "first"
    /\ lastOp = "setup"
    /\ cmd = "" /\ hex = <<>> /\ bytes = <<>>
    /\ LinkBoot

\* the state with what the polls have emitted so far
Collected == [Cur EXCEPT !.io = io, !.pub = pub, !.poll = poll]

\* main.cpp lines 146-164 in the first of the two ticks
FirstPoll ==
    /\ pc = "first"
    /\ \E r \in device : Become(loopPoll(Collected, r))
    /\ pc' = "between"
    /\ lastOp' = "loop"

\* time passes between the two ticks
Between ==
    /\ pc = "between"
    /\ Become([Collected EXCEPT !.now = (now \div StepMs + 1) * StepMs])
    /\ pc' = "second"
    /\ lastOp' = "env"

\* main.cpp lines 146-164 in the second tick
SecondPoll ==
    /\ pc = "second"
    /\ \E r \in device : Become(loopPoll(Collected, r))
    /\ pc' = "done"
    /\ lastOp' = "loop"

\* the broker connection drops before or between the polls
BrokerLost ==
    /\ pc \in {"first", "between"}
    /\ mqttUp
    /\ Become([Collected EXCEPT !.mqttUp = FALSE])
    /\ lastOp' = "env"
    /\ UNCHANGED pc

PairNext == FirstPoll \/ Between \/ SecondPoll \/ BrokerLost

PairSpec == PairInit /\ [][PairNext]_vars

----
(* The codec on its own: encodeCommand and hexStringToBytes applied to every *)
(* command name and to names that are not in the table.                      *)

UnknownNames == {"", "volume", "POWER_ON", "Volume_Up", "report"}

CodecInit ==
    /\ addressValid = TRUE /\ apiKey = <<>>
    /\ Boot /\ pc = "codec" /\ cmd \in CommandNames \cup UnknownNames
    /\ device = Replies /\ pending = 0

\* sendCommand(), line 269
Encode ==
    /\ pc = "codec"
    /\ hex' = encodeCommand(cmd)
    /\ pc' = "encoded"
    /\ UNCHANGED <<now, linkUp, mqttUp, btConnected, lastBtConnectAttempt,
                   reconnectHoldOffUntil, isPaired, prefsPaired, btStats,
                   lastBtStatus, lastPublishedBtStatus, lastStatusPoll,
                   lastSoundbarStatus, addressValid, wifiGotIP, apiKey, device,
                   pending,
                   io, pub,
                   conn, poll, call, lastOp,
                   cmd, bytes, linkVars>>

\* sendCommand(), lines 275-276
ToBytes ==
    /\ pc = "encoded"
    /\ bytes' = hexStringToBytes(hex, TX_BUFFER)
    /\ pc' = "bytes"
    /\ UNCHANGED <<now, linkUp, mqttUp, btConnected, lastBtConnectAttempt,
                   reconnectHoldOffUntil, isPaired, prefsPaired, btStats,
                   lastBtStatus, lastPublishedBtStatus, lastStatusPoll,
                   lastSoundbarStatus, addressValid, wifiGotIP, apiKey, device,
                   pending,
                   io, pub,
                   conn, poll, call, lastOp,
                   cmd, hex, linkVars>>

\* decodeStatus() given the frame of the command
DecodeEncoded ==
    /\ pc = "bytes"
    /\ response' = hex
    /\ rxStatus' = decodeStatus(hex)
    /\ pc' = "decoded"
    /\ UNCHANGED <<now, linkUp, mqttUp, btConnected, lastBtConnectAttempt,
                   reconnectHoldOffUntil, isPaired, prefsPaired, btStats,
                   lastBtStatus, lastPublishedBtStatus, lastStatusPoll,
                   lastSoundbarStatus, addressValid, wifiGotIP, apiKey, device,
                   pending,
                   io, pub,
                   conn, poll, call, lastOp, codecVars, bytesSent, bytesReceived, wire,
                   result, inbound, taken, requestStart, lastByteTime,
                   buffer>>

\* the same name is given to sendCommand() once more, with the link and the
\* Last Known Status in another state; hex keeps the result of the call
\* before
Again ==
    /\ pc = "decoded"
    /\ \E up \in BOOLEAN, known \in {UnknownStatus, Report(10, 8)} :
          Become([Cur EXCEPT !.linkUp = up, !.btConnected = up,
                             !.lastSoundbarStatus = known])
    /\ pc' = "codec"
    /\ lastOp' = "again"

CodecNext == Encode \/ ToBytes \/ DecodeEncoded \/ Again

CodecSpec == CodecInit /\ [][CodecNext]_vars

----------------------------------------------------------------------------
(* sendCommand on its own, byte by byte: the bridge has run the Bluetooth   *)
(* part of setup(), which connected the soundbar or did not; sendCommand is  *)
(* then called with names of the table and names outside it, and            *)
(* SerialBT.write() accepts all, some or none of the frame.                  *)

\* the bytes sendCommand() hands to SerialBT.write()
txFrame(c) == hexStringToBytes(encodeCommand(c), TX_BUFFER)

\* what SerialBT.write(buffer, len) can return
Accepts(frame) == IF linkUp THEN {0, 1, Len(frame)} ELSE {0}

\* faulty variant of linkWrites: the name is not checked, the empty frame of
\* an unknown name is written
linkWrites_Unchecked(c, written) ==
    << [bytes |-> txFrame(c), written |-> written] >>

\* the calls of SerialBT.write() one call of sendCommand() makes: none for an
\* unknown name (lines 270-273), one otherwise (line 280)
linkWrites(c, written) ==
    IF encodeCommand(c) = <<>> THEN <<>>
    ELSE << [bytes |-> txFrame(c), written |-> written] >>

\* faulty variant of sendResult: a short write counts as sent
sendResult_AnyWrite(c, written) ==
    encodeCommand(c) # <<>> /\ written > 0

\* the value sendCommand() returns (lines 272, 283-288)
sendResult(c, written) ==
    encodeCommand(c) # <<>> /\ written = Len(txFrame(c))

\* sendCommand(c) on the link: the write, btStats.bytesSent, the result
Transmit(c) ==
    \E written \in (IF encodeCommand(c) = <<>> THEN {0}
                    ELSE Accepts(txFrame(c))) :
        /\ wire' = wire \o linkWrites(c, written)
        /\ bytesSent' = bytesSent + (IF encodeCommand(c) = <<>> THEN 0
                                     ELSE written)
        /\ result' = sendResult(c, written)

\* the state after setup() has called connectBluetooth(), line 126
AfterConnect(polls, okAt) ==
    LET s0 == Delay(BootState, SETUP_DELAY_MS + polls * WIFI_POLL_MS)
        s1 == connectBluetooth(LoadPaired(s0), FALSE, okAt)
    IN  [s1 EXCEPT !.io = <<>>, !.conn = "none"]

SendNames == {"volume_up", "report_status", "power_off", "", "volume"}

\* SendSpec calls sendCommand() while fewer than MaxSends writes were made
MaxSends == 2

SendInit ==
    /\ addressValid = TRUE /\ apiKey = <<>>
    /\ wifiGotIP = TRUE
    /\ \E polls \in WifiPolls, okAt \in {0, 1} :
          Holds(AfterConnect(polls, okAt))
    /\ device = Replies
    /\ pc = "tx"
    /\ lastOp = "setup"
    /\ cmd = "" /\ hex = <<>> /\ bytes = <<>>
    /\ LinkStart(<<>>, <<>>)

\* one call of sendCommand()
Send ==
    /\ pc = "tx"
    /\ Len(wire) < MaxSends
    /\ \E c \in SendNames : cmd' = c /\ Transmit(c)
    /\ lastOp' = "sendCommand"
    /\ UNCHANGED <<now, pc, linkUp, mqttUp, btConnected, lastBtConnectAttempt,
                   reconnectHoldOffUntil, isPaired, prefsPaired, btStats,
                   lastBtStatus, lastPublishedBtStatus, lastStatusPoll,
                   lastSoundbarStatus, addressValid, wifiGotIP, apiKey, device,
                   pending,
                   io, pub,
                   conn, poll, call, hex, bytes, bytesReceived, inbound, taken,
                   requestStart, lastByteTime, buffer, response, rxStatus>>

\* the link drops between two calls
SendLinkLost ==
    /\ pc = "tx"
    /\ LinkLost

SendNext == Send \/ SendLinkLost

SendSpec == SendInit /\ [][SendNext]_vars

----------------------------------------------------------------------------
(* decodeStatus on its own: the last two calls of requestStatus(),          *)
(* bytesToHexString and decodeStatus, applied to byte strings of every      *)
(* length around 16, with either type byte and with every code of the two   *)
(* name tables and codes outside them.                                      *)

\* a status response as the comment of decodeStatus() lays it out:
\* cc aa 0d <type> 00 <power> <input> <muted> <volume> <subwoofer> 20 20 00
\* <surround, 2 bytes> <flags>
StatusFrame(type, power, input, muted, volume, subwoofer, surround, flags) ==
    <<204, 170, 13, type, 0, power, input, muted, volume, subwoofer,
      32, 32, 0>> \o surround \o <<flags>>

TypeBytes == {5, 4}
PowerBytes == {0, 1, 2}
InputBytes == {0, 12, 5, 7, 9}
MutedBytes == {0, 1}
LevelBytes == {0, 10, 50, 255}
SurroundBytes ==
    {<<0, 13>>, <<0, 10>>, <<1, 0>>, <<0, 3>>, <<0, 8>>, <<0, 9>>, <<0, 12>>,
     <<0, 1>>, <<1, 13>>}
FlagBytes == {0, 32, 4, 36, 20, 34, 66}

\* responses of a soundbar that is on, on HDMI, at volume 10 and subwoofer
\* 8, in movie mode, changed in one place, with either type byte
Frames ==
    UNION { {StatusFrame(type, p, 0, 0, 10, 8, <<0, 3>>, 0) : p \in PowerBytes}
            \cup {StatusFrame(type, 1, i, 0, 10, 8, <<0, 3>>, 0) :
                      i \in InputBytes}
            \cup {StatusFrame(type, 1, 0, m, 10, 8, <<0, 3>>, 0) :
                      m \in MutedBytes}
            \cup {StatusFrame(type, 1, 0, 0, v, 8, <<0, 3>>, 0) :
                      v \in LevelBytes}
            \cup {StatusFrame(type, 1, 0, 0, 10, sw, <<0, 3>>, 0) :
                      sw \in LevelBytes}
            \cup {StatusFrame(type, 1, 0, 0, 10, 8, su, f) :
                      su \in SurroundBytes, f \in FlagBytes}
          : type \in TypeBytes }

\* the lengths a response is cut or padded to
FrameLengths == {0, 1, 3, 4, 15, 16, 17, 20}

\* the first n bytes of a response, padded with 00 beyond its end
Resize(f, n) == [i \in 1..n |-> IF i <= Len(f) THEN f[i] ELSE 0]

RxInputs ==
    Frames \cup {Resize(StatusFrame(type, 1, 5, 1, 10, 8, <<0, 13>>, 36), n) :
                    type \in TypeBytes, n \in FrameLengths}

DecodeInit ==
    /\ addressValid = TRUE /\ apiKey = <<>>
    /\ Globals /\ pc = "rx_bytes" /\ cmd = ""
    /\ device = Replies /\ pending = 0
    /\ \E b \in RxInputs : LinkStart(<<>>, b)

\* requestStatus(), line 331
ToHex ==
    /\ pc = "rx_bytes"
    /\ response' = bytesToHexString(buffer)
    /\ pc' = "rx_hex"
    /\ UNCHANGED <<now, linkUp, mqttUp, btConnected, lastBtConnectAttempt,
                   reconnectHoldOffUntil, isPaired, prefsPaired, btStats,
                   lastBtStatus, lastPublishedBtStatus, lastStatusPoll,
                   lastSoundbarStatus, addressValid, wifiGotIP, apiKey, device,
                   pending,
                   io, pub,
                   conn, poll, call, lastOp, codecVars, bytesSent, bytesReceived, wire,
                   result, inbound, taken, requestStart, lastByteTime,
                   buffer, rxStatus>>

\* requestStatus(), line 332
Decode ==
    /\ pc = "rx_hex"
    /\ rxStatus' = decodeStatus(response)
    /\ pc' = "decoded"
    /\ UNCHANGED <<now, linkUp, mqttUp, btConnected, lastBtConnectAttempt,
                   reconnectHoldOffUntil, isPaired, prefsPaired, btStats,
                   lastBtStatus, lastPublishedBtStatus, lastStatusPoll,
                   lastSoundbarStatus, addressValid, wifiGotIP, apiKey, device,
                   pending,
                   io, pub,
                   conn, poll, call, lastOp, codecVars, bytesSent, bytesReceived, wire,
                   result, inbound, taken, requestStart, lastByteTime,
                   buffer, response>>

DecodeNext == ToHex \/ Decode

DecodeSpec == DecodeInit /\ [][DecodeNext]_vars

----------------------------------------------------------------------------
(* requestStatus on its own, byte by byte and millisecond by millisecond.    *)
(* The bridge has run the Bluetooth part of setup(); the soundbar sends the  *)
(* bytes of inbound, each at its time, whether asked or not.  Every pass of  *)
(* the while loop of lines 316-325 is one step.                              *)

\* sizeof(buffer) in requestStatus
RX_BUFFER == 64

\* the variables of the bridge that sendCommand() and requestStatus() do not
\* touch
bridgeVars ==
    <<linkUp, mqttUp, btConnected, lastBtConnectAttempt,
      reconnectHoldOffUntil, isPaired, prefsPaired, btStats, lastBtStatus,
      lastPublishedBtStatus, lastStatusPoll, lastSoundbarStatus,
      addressValid, wifiGotIP, apiKey, device, pending, io, pub, conn, poll,
      call>>

\* number of bytes of inbound that have reached the bridge at the time t
Arrived(t) == Cardinality({i \in 1..Len(inbound) : inbound[i].at <= t})

\* SerialBT.available()
available == taken < Arrived(now)

\* the while condition of line 316
waiting(elapsed, len) ==
    elapsed < STATUS_REQUEST_TIMEOUT_MS /\ len < RX_BUFFER

\* faulty variant of idle: silence ends the wait before the first byte too
idle_BeforeFirstByte(len, silent) == silent > RX_IDLE_MS

\* the else-if of line 321
idle(len, silent) == len > 0 /\ silent > RX_IDLE_MS

\* the bytes b arrive one after the other, the first at the time t and then
\* every gap milliseconds
Stream(b, t, gap) == [i \in 1..Len(b) |-> [at |-> t + (i - 1) * gap, byte |-> b[i]]]

\* the response of a soundbar that is on, on HDMI, at volume 10 and
\* subwoofer 8, in movie mode
Response == StatusFrame(5, 1, 0, 0, 10, 8, <<0, 3>>, 0)

\* what the soundbar sends after a request made at the time t: nothing; the
\* response at once, late, or just before the timeout; the response after
\* bytes that were sent before the request; the response in two halves with
\* a pause that is just short enough or too long; a byte every 50 ms up to
\* the timeout; a short answer; more bytes than the buffer holds
Schedules(t) ==
    { <<>>,
      Stream(Response, t + 20, 0),
      Stream(Response, t + 2000, 0),
      Stream(Response, t + 2999, 0),
      Stream(<<1, 2, 3>>, t - 5, 0) \o Stream(Response, t + 20, 0),
      Stream(SubSeq(Response, 1, 8), t + 20, 0)
          \o Stream(SubSeq(Response, 9, 16), t + 128, 0),
      Stream(SubSeq(Response, 1, 8), t + 20, 0)
          \o Stream(SubSeq(Response, 9, 16), t + 129, 0),
      Stream(Resize(Response, 70), t + 2500, 50),
      Stream(SubSeq(Response, 1, 5), t + 20, 0),
      Stream(Resize(Response, 70), t + 20, 0) }

RxInit ==
    /\ addressValid = TRUE /\ apiKey = <<>>
    /\ wifiGotIP = TRUE
    /\ \E polls \in WifiPolls, okAt \in {0, 1} :
          Holds(AfterConnect(polls, okAt))
    /\ device = Replies
    /\ pc = "rq_flush"
    /\ lastOp = "setup"
    /\ cmd = "" /\ hex = <<>> /\ bytes = <<>>
    /\ \E arriving \in Schedules(now) : LinkStart(arriving, <<>>)

\* requestStatus(), lines 293-300: every byte that is available is read and
\* dropped
RxFlush ==
    /\ pc = "rq_flush"
    /\ taken' = Arrived(now)
    /\ rxStatus' = UnknownStatus
    /\ pc' = "rq_send"
    /\ lastOp' = "requestStatus"
    /\ UNCHANGED <<now, bridgeVars, codecVars, bytesSent, bytesReceived, wire,
                   result, inbound, requestStart, lastByteTime, buffer,
                   response>>

\* requestStatus(), lines 305-314: the request is sent; the call returns when
\* it could not be
RxSend ==
    /\ pc = "rq_send"
    /\ Transmit("report_status")
    /\ IF result'
       THEN /\ requestStart' = now
            /\ lastByteTime' = now
            /\ buffer' = <<>>
            /\ pc' = "rq_loop"
       ELSE /\ pc' = "unsent"
            /\ UNCHANGED <<requestStart, lastByteTime, buffer>>
    /\ UNCHANGED <<now, bridgeVars, lastOp, codecVars, bytesReceived, inbound,
                   taken, response, rxStatus>>

\* requestStatus(), lines 316-325: one pass of the loop that reads a byte
RxRead ==
    /\ pc = "rq_loop"
    /\ waiting(now - requestStart, Len(buffer))
    /\ available
    /\ buffer' = Append(buffer, inbound[taken + 1].byte)
    /\ taken' = taken + 1
    /\ lastByteTime' = now
    /\ bytesReceived' = bytesReceived + 1
    /\ now' = now + 1
    /\ UNCHANGED <<pc, bridgeVars, lastOp, codecVars, bytesSent, wire, result,
                   inbound, requestStart, response, rxStatus>>

\* requestStatus(), lines 316-325: one pass of the loop that finds no byte
\* and goes on waiting
RxWait ==
    /\ pc = "rq_loop"
    /\ waiting(now - requestStart, Len(buffer))
    /\ ~available
    /\ ~idle(Len(buffer), now - lastByteTime)
    /\ now' = now + 1
    /\ UNCHANGED <<pc, bridgeVars, lastOp, codecVars, linkVars>>

\* requestStatus(), lines 316-346: the loop ends, by its condition or by the
\* break; without a byte the call returns the initial record
RxStop ==
    /\ pc = "rq_loop"
    /\ \/ ~waiting(now - requestStart, Len(buffer))
       \/ ~available /\ idle(Len(buffer), now - lastByteTime)
    /\ pc' = IF Len(buffer) > 0 THEN "rx_bytes" ELSE "silent"
    /\ UNCHANGED <<now, bridgeVars, lastOp, codecVars, linkVars>>

RxNext == RxFlush \/ RxSend \/ RxRead \/ RxWait \/ RxStop \/ ToHex \/ Decode

RxSpec == RxInit /\ [][RxNext]_vars

\* the loop is not suspended for ever: delay(1) returns
RxLiveSpec == RxSpec /\ WF_vars(RxNext)

----------------------------------------------------------------------------
(* Properties *)

ResetOps == {"handleResetPairing", "mqttResetPairing"}

BondRemoval == <<"bt.remove_bond", "address", "">>
LinkDisconnect == <<"bt.disconnect", "", "">>
PairedFalseWrite == <<"prefs.putBool", "paired", "false">>
PairedTrueWrite == <<"prefs.putBool", "paired", "true">>
OnlinePublish == <<"mqtt.publish", "available", "online">>
OfflinePublish == <<"mqtt.publish", "available", "offline">>

InLog(log, e) == \E i \in 1..Len(log) : log[i] = e

\* the step is the reconnect part of a tick and it called connectBluetooth()
LoopCalledConnect ==
    pc = "reconnect" /\ lastOp' = "loop"
        /\ btStats'.connectAttempts # btStats.connectAttempts

\* C1: the periodic loop starts no connect attempt at a tick where
\* now < reconnectHoldOffUntil, in particular not during the 30 s that follow
\* resetPairing().  (lastBtConnectAttempt is the time the attempt of the last
\* step started; the loop leaves reconnectHoldOffUntil alone.)
C1_NoAttemptDuringHoldOff ==
    (lastOp = "loop" /\ conn # "none")
        => lastBtConnectAttempt >= reconnectHoldOffUntil

\* C2: loop() calls connectBluetooth() only when the link is not known to be
\* up and more than BT_RECONNECT_DELAY_MS has passed since
\* lastBtConnectAttempt, which then becomes the time of this attempt; and
\* lastBtConnectAttempt is written by nothing but the start of an attempt, a
\* manual reconnect request and a restart: two consecutive automatic attempts
\* start more than 10 s apart.
C2_ReconnectBackoff ==
    [][/\ LoopCalledConnect =>
            /\ ~(btConnected /\ linkUp)
            /\ now - lastBtConnectAttempt > BT_RECONNECT_DELAY_MS
            /\ lastBtConnectAttempt' = now
       /\ (pc = "reconnect" /\ lastOp' = "loop" /\ btConnected /\ linkUp)
            => btStats'.connectAttempts = btStats.connectAttempts
       /\ lastBtConnectAttempt' # lastBtConnectAttempt =>
            \/ btStats'.connectAttempts = btStats.connectAttempts + 1
            \/ lastOp' \in {"handleReconnect", "restart"}]_vars

\* a second attempt was started by the loop, after the one of setup()
C2_Witness ==
    lastOp = "loop" /\ conn \in {"ok", "fail"} /\ btStats.connectAttempts = 2
        /\ lastBtConnectAttempt > BT_RECONNECT_DELAY_MS

\* the clock and the attempt counter of the model leave room for one more
\* automatic attempt
RoomToRetry ==
    /\ btStats.connectAttempts < MaxAttempts
    /\ lastBtConnectAttempt + BT_RECONNECT_DELAY_MS < MaxSteps * StepMs

\* C3: a connect failure is never fatal: from every state in which the link
\* is down, if ticks keep occurring and time advances, connectBluetooth() is
\* eventually called again (unless the link comes back by itself first); and
\* once the device has accepted the connection the bridge eventually records
\* btConnected = true (unless the link is lost again first).
C3_RetryContinues ==
    /\ (~linkUp /\ conn = "none" /\ RoomToRetry) ~> (conn # "none" \/ linkUp)
    /\ (linkUp /\ ~btConnected /\ RoomToRetry) ~> (btConnected \/ ~linkUp)

\* the loop has retried after a failed attempt and the retry has connected
C3_Witness ==
    lastOp = "loop" /\ conn = "ok" /\ btConnected
        /\ btStats.connectFailures = 1 /\ btStats.connectAttempts = 2

\* C4: resetPairing() ends with isPaired false in memory and in the store, a
\* bond removal requested, btConnected false (the link closed if btConnected
\* was true), reconnectHoldOffUntil = now + 30000 and the status string
\* "pairing_reset".
C4_ResetPairingEffect ==
    [][lastOp' \in ResetOps =>
            /\ ~isPaired' /\ ~prefsPaired'
            /\ InLog(io', PairedFalseWrite)
            /\ InLog(io', BondRemoval)
            /\ ~btConnected'
            /\ btConnected => (~linkUp' /\ InLog(io', LinkDisconnect))
            /\ ~btConnected => (linkUp' = linkUp /\ ~InLog(io', LinkDisconnect))
            /\ reconnectHoldOffUntil' = now + HOLD_OFF_MS
            /\ lastBtStatus' = "pairing_reset"]_vars

\* a reset has just closed an open, paired link
C4_Witness ==
    lastOp \in ResetOps /\ InLog(io, LinkDisconnect)
        /\ btStats.connectSuccesses > 0 /\ ~isPaired /\ ~linkUp

\* the reconnect part of a tick that follows a manual reconnect request:
\* handleReconnect() has cleared lastBtConnectAttempt since the last attempt
AfterManualRequest ==
    pc = "reconnect" /\ btStats.connectAttempts > 0 /\ lastBtConnectAttempt = 0

\* C5: after a manual reconnect request, with the link down, the very next
\* tick of the loop starts a connect attempt, whatever the uptime.
C5_ManualReconnectIsImmediate ==
    [][(AfterManualRequest /\ ~linkUp /\ lastOp' = "loop")
            => btStats'.connectAttempts = btStats.connectAttempts + 1]_vars

\* the step calls connectBluetooth() while the link is open
CallWhileConnected ==
    pc = "reconnect" /\ lastOp' = "loop" /\ linkUp
        /\ LinkDown(Cur) /\ ReconnectDue(Cur)

NoLinkCall(log) ==
    \A i \in 1..Len(log) : log[i][1] \notin {"bt.connect", "bt.disconnect"}

ConnectCall ==
    lastOp' \in {"setup", "loop"}
        /\ btStats'.connectAttempts # btStats.connectAttempts

\* isPaired when connectBluetooth() is entered (setup() loads it first)
EntryPaired == IF pc = "setup" THEN prefsPaired ELSE isPaired

\* C7: a connect attempt that succeeds adds one to connectSuccesses and
\* nothing to connectFailures, sets btConnected and the status "connected",
\* records connectedSince (a time within the call), sets isPaired and writes
\* it to the store exactly if it was false, and publishes "online" when MQTT
\* is connected.
C7_ConnectSuccessEffect ==
    [][(ConnectCall /\ ~linkUp /\ linkUp') =>
            /\ btStats'.connectSuccesses = btStats.connectSuccesses + 1
            /\ btStats'.connectFailures = btStats.connectFailures
            /\ btStats'.connectAttempts = btStats.connectAttempts + 1
            /\ btConnected'
            /\ lastBtStatus' = "connected"
            /\ btStats'.connectedSince \in now..now'
            /\ isPaired' /\ prefsPaired'
            /\ InLog(io', PairedTrueWrite) <=> ~EntryPaired
            /\ ~InLog(io', PairedFalseWrite)
            /\ mqttUp => InLog(io', OnlinePublish)]_vars

\* the first success of an unpaired bridge, with MQTT connected
C7_Witness ==
    lastOp = "loop" /\ conn = "ok" /\ InLog(io, PairedTrueWrite)
        /\ InLog(io, OnlinePublish) /\ btStats.connectSuccesses = 1
        /\ btStats.connectFailures = 1 /\ isPaired /\ prefsPaired

\* C8: when every address attempt and the connect by name fail,
\* connectBluetooth() adds one to connectFailures and nothing to
\* connectSuccesses, leaves isPaired and the persisted flag alone, clears
\* btConnected, records "connect_failed" with the attempt number as the
\* reason, and publishes "offline" when MQTT is connected.
C8_ConnectFailureEffect ==
    [][(ConnectCall /\ ~linkUp /\ ~linkUp') =>
            /\ btStats'.connectFailures = btStats.connectFailures + 1
            /\ btStats'.connectSuccesses = btStats.connectSuccesses
            /\ btStats'.connectAttempts = btStats.connectAttempts + 1
            /\ isPaired' = EntryPaired /\ prefsPaired' = prefsPaired
            /\ ~InLog(io', PairedTrueWrite) /\ ~InLog(io', PairedFalseWrite)
            /\ ~btConnected'
            /\ lastBtStatus' = "connect_failed"
            /\ btStats'.lastError = btStats'.connectAttempts
            /\ Len(SelectSeq(io', LAMBDA e : e[1] = "bt.connect"))
                   = MAC_ATTEMPTS + 1
            /\ mqttUp => InLog(io', OfflinePublish)]_vars

\* a paired bridge has just failed to connect, with MQTT connected
C8_Witness ==
    lastOp = "loop" /\ conn = "fail" /\ isPaired /\ prefsPaired
        /\ InLog(io, OfflinePublish) /\ btStats.connectFailures = 1
        /\ btStats.lastError = 2

C10_LinkLossCounted ==
    [][(pc = "reconnect" /\ lastOp' = "loop" /\ btConnected /\ ~linkUp) =>
            /\ btStats'.disconnects = btStats.disconnects + 1
            /\ btStats'.totalConnectedTime =
                   btStats.totalConnectedTime + (now - btStats.connectedSince)]_vars

\* the phase was set to p during the step that wrote the log
PhaseSet(log, p) == InLog(log, <<"status", p, "">>)

\* the reconnect part of a tick finds that the link of a recorded connection
\* is gone
LossDetected ==
    pc = "reconnect" /\ lastOp' = "loop" /\ btConnected /\ ~linkUp

\* C11: the connection phase starts as "disconnected"; a connect attempt
\* that is not a no-op passes through "connecting" and ends in "connected" or
\* "connect_failed", and no step ends in "connecting"; a detected link loss
\* moves the phase from "connected" to "disconnected"; a reset request moves
\* it to "pairing_reset"; the phase changes in no other way.
C11_PhaseTransitions ==
    /\ lastBtStatus = "disconnected"
    /\ [][/\ (ConnectCall /\ ~linkUp) =>
               /\ PhaseSet(io', "connecting")
               /\ lastBtStatus' \in {"connected", "connect_failed"}
          /\ lastBtStatus' # "connecting"
          /\ (LossDetected /\ lastBtStatus = "connected") =>
               PhaseSet(io', "disconnected")
          /\ lastOp' \in ResetOps => lastBtStatus' = "pairing_reset"
          /\ lastBtStatus' # lastBtStatus =>
               \/ ConnectCall
               \/ LossDetected
               \/ lastOp' \in ResetOps \cup {"restart"}]_vars

\* the step is a tick of loop() that made the periodic poll
Polled == lastOp' = "loop" /\ poll' # NoPoll

\* the step is a tick of loop() in which nothing but the periodic poll can
\* have acted: the link is up and recorded, MQTT is not reconnected
QuietTick ==
    pc = "reconnect" /\ lastOp' = "loop" /\ btConnected /\ linkUp
        /\ mqttUp' = mqttUp

StatePublish == <<"mqtt.publish", "state", "">>
StatusRequest == <<"bt.write", "report_status", "">>

\* C12: the periodic poll is made only in a tick in which btConnected is
\* true and more than STATUS_POLL_INTERVAL_MS has passed since the previous
\* poll (lastStatusPoll moves by more than the interval, and by nothing but
\* a poll or a restart); a poll that returns valid = false leaves Last Known
\* Status, btConnected, the phase and the counters as they were and
\* publishes nothing.
C12_PollGatedAndInvalidIgnored ==
    [][/\ poll' # NoPoll => lastOp' = "loop"
       /\ Polled =>
            /\ btConnected'
            /\ lastStatusPoll' - lastStatusPoll > STATUS_POLL_INTERVAL_MS
            /\ lastStatusPoll' \in now..now'
            /\ InLog(io', StatusRequest)
       /\ lastStatusPoll' # lastStatusPoll => (Polled \/ lastOp' = "restart")
       /\ (QuietTick /\ poll'.path = "invalid") =>
            /\ lastSoundbarStatus' = lastSoundbarStatus
            /\ pub' = <<>> /\ ~InLog(io', StatePublish)
            /\ btConnected' /\ linkUp'
            /\ lastBtStatus' = lastBtStatus
            /\ lastPublishedBtStatus' = lastPublishedBtStatus
            /\ btStats' = btStats
            /\ isPaired' = isPaired /\ prefsPaired' = prefsPaired]_vars

\* a poll has just failed while a status was known and MQTT was connected
C12_Witness ==
    lastOp = "loop" /\ poll.path = "invalid" /\ conn = "none" /\ mqttUp
        /\ btConnected /\ lastSoundbarStatus.valid
        /\ lastStatusPoll > STATUS_POLL_INTERVAL_MS

Fields8 ==
    {"power", "input", "muted", "volume", "subwoofer", "surround",
     "bass_ext", "clear_voice"}

\* the records a and b differ in one of the eight fields
AnyFieldDiffers(a, b) == \E f \in Fields8 : a[f] # b[f]

\* number of publications on the state topic in the log of a step
StatePublishes(log) == Len(SelectSeq(log, LAMBDA e : e = StatePublish))

\* the step is a tick in which only the periodic poll acted and the poll
\* returned a valid record
ValidPoll == QuietTick /\ Polled /\ poll'.status.valid

\* C13: on a valid periodic poll the poller publishes exactly if one of the
\* eight fields differs from Last Known Status; when one differs, Last Known
\* Status becomes the new record and exactly one notification carrying the
\* whole new record is emitted; when none differs, Last Known Status is
\* unchanged and nothing is emitted.
C13_PublishIffDiffers ==
    [][ValidPoll =>
          LET r == poll'.status
          IN  IF AnyFieldDiffers(r, lastSoundbarStatus)
              THEN /\ lastSoundbarStatus' = r
                   /\ pub' = <<StatusJson(r)>>
                   /\ StatePublishes(io') = 1
              ELSE /\ lastSoundbarStatus' = lastSoundbarStatus
                   /\ pub' = <<>>
                   /\ StatePublishes(io') = 0]_vars

\* the same contract for the polls made while MQTT is connected, which the
\* poller keeps
PublishIffDiffersOnline ==
    [][(ValidPoll /\ mqttUp) =>
          LET r == poll'.status
          IN  IF AnyFieldDiffers(r, lastSoundbarStatus)
              THEN /\ lastSoundbarStatus' = r
                   /\ pub' = <<StatusJson(r)>>
                   /\ StatePublishes(io') = 1
              ELSE /\ lastSoundbarStatus' = lastSoundbarStatus
                   /\ pub' = <<>>
                   /\ StatePublishes(io') = 0]_vars

StatusWriters ==
    {"setup", "loop", "mqttCommand", "mqttSetVolume", "mqttSetSubwoofer"}

\* C15: Last Known Status is overwritten only on a valid decode: every step
\* that changes it is one of its writers (the periodic poll, the command
\* handler, setVolume, setSubwoofer, connectMqtt) and leaves in it a record
\* the soundbar returned with valid = true; only a restart brings the
\* initial record back.
C15_OverwrittenOnlyOnValid ==
    [][lastSoundbarStatus' # lastSoundbarStatus =>
            \/ lastOp' = "restart" /\ lastSoundbarStatus' = UnknownStatus
            \/ /\ lastOp' \in StatusWriters
               /\ lastSoundbarStatus'.valid
               /\ lastSoundbarStatus' \in device]_vars

\* the status request of the command handler has just failed and the record
\* of an earlier valid decode is still held
C15_Witness ==
    lastOp = "mqttCommand" /\ InLog(io, StatusRequest) /\ pub = <<>>
        /\ mqttUp /\ linkUp /\ lastSoundbarStatus.valid

VolumeToggles == {"volume_up", "volume_down"}
SubwooferToggles == {"subwoofer_up", "subwoofer_down"}
ToggleDelay == <<"delay", "50", "">>

\* the entry of a log is a write of one of the commands in names
IsWrite(e, names) == e[1] = "bt.write" /\ e[2] \in names

\* number of writes of the commands in names in a log
Writes(log, names) == Cardinality({i \in 1..Len(log) : IsWrite(log[i], names)})

\* every write of a command in names is followed by the 50 ms delay
Paced(log, names) ==
    \A i \in 1..Len(log) :
        IsWrite(log[i], names) => (i < Len(log) /\ log[i + 1] = ToggleDelay)

\* number of status requests in a log
Requests(log) == Writes(log, {"report_status"})

\* the log is: one status request, writes of commands in names with their
\* delays, one status request, and what the second request led to publish
PollTogglePoll(log, names) ==
    /\ Requests(log) = 2
    /\ log[1] = StatusRequest
    /\ \E j \in 2..Len(log) :
          /\ log[j] = StatusRequest
          /\ \A i \in 2..(j - 1) : IsWrite(log[i], names) \/ log[i] = ToggleDelay
          /\ \A i \in (j + 1)..Len(log) : log[i] = StatePublish

Min(a, b) == IF a < b THEN a ELSE b

\* the step is a call of setVolume whose first status request was valid
VolumeCall ==
    lastOp' = "mqttSetVolume" /\ call' # NoCall /\ call'.status.valid

\* the step is a call of setSubwoofer whose first status request was valid
SubwooferCall ==
    lastOp' = "mqttSetSubwoofer" /\ call' # NoCall /\ call'.status.valid

\* what C16 says of a call of setVolume(target) that read the volume v
VolumeConverges(target, v) ==
    /\ Writes(io', VolumeToggles) = Min(Abs(target - v), 50)
    /\ target > v => Writes(io', {"volume_down"}) = 0
    /\ target < v => Writes(io', {"volume_up"}) = 0
    /\ Paced(io', VolumeToggles)
    /\ now' - now >= 50 * Writes(io', VolumeToggles)
    /\ PollTogglePoll(io', VolumeToggles)

\* C16: setVolume(target) with a valid initial poll reading volume v issues
\* exactly min(|target - v|, 50) toggle commands, all volume_up if
\* target > v and all volume_down if target < v, each followed by a delay of
\* 50 ms, and then makes exactly one confirmation poll.
C16_VolumeConvergence ==
    [][VolumeCall => VolumeConverges(call'.target, call'.status.volume)]_vars

\* the same for the calls whose target differs from the volume read, which
\* setVolume keeps
VolumeConvergenceOffTarget ==
    [][(VolumeCall /\ call'.target # call'.status.volume)
           => VolumeConverges(call'.target, call'.status.volume)]_vars

\* the level a call of setVolume or setSubwoofer read
LevelRead == IF lastOp' = "mqttSetVolume" THEN call'.status.volume
                                          ELSE call'.status.subwoofer

\* C17: when the level read by the first poll equals the target, setVolume
\* and setSubwoofer issue no toggle command and still make the confirmation
\* poll, whose valid result is what they publish.
C17_OnTargetStillConfirms ==
    [][((VolumeCall \/ SubwooferCall) /\ LevelRead = call'.target) =>
            /\ Writes(io', VolumeToggles \cup SubwooferToggles) = 0
            /\ Requests(io') = 2
            /\ pub' # <<>> => pub' = <<StatusJson(lastSoundbarStatus')>>]_vars

\* C18: setSubwoofer(target) with a valid initial poll reading subwoofer s
\* issues exactly min(floor(|target - s| / 4), 8) toggle commands, all in the
\* direction of the target, so that 4 units per toggle never pass the target.
C18_SubwooferSteps ==
    [][SubwooferCall =>
          LET target == call'.target
              s == call'.status.subwoofer
              n == Writes(io', SubwooferToggles)
          IN  /\ n = Min(Abs(target - s) \div 4, 8)
              /\ target > s => Writes(io', {"subwoofer_down"}) = 0
              /\ target < s => Writes(io', {"subwoofer_up"}) = 0
              /\ 4 * n <= Abs(target - s)
              /\ Paced(io', SubwooferToggles)]_vars

\* setSubwoofer(13) read 8 and sent one subwoofer_up
C18_Witness ==
    lastOp = "mqttSetSubwoofer" /\ call.target = 13 /\ call.status.valid
        /\ call.status.subwoofer = 8
        /\ Writes(io, {"subwoofer_up"}) = 1 /\ Writes(io, SubwooferToggles) = 1

\* C19: when the first poll of setVolume or setSubwoofer returns
\* valid = false the operation aborts: no toggle command is sent, no
\* confirmation poll is made, Last Known Status is unchanged and nothing is
\* published.
C19_InvalidFirstPollAborts ==
    [][(lastOp' \in {"mqttSetVolume", "mqttSetSubwoofer"} /\ call' # NoCall
            /\ ~call'.status.valid) =>
            /\ io' = <<StatusRequest>>
            /\ lastSoundbarStatus' = lastSoundbarStatus
            /\ pub' = <<>>]_vars

\* the first poll of setVolume has just failed while a status was known
C19_Witness ==
    lastOp = "mqttSetVolume" /\ call # NoCall /\ ~call.status.valid
        /\ call.target = 15 /\ io = <<StatusRequest>>
        /\ lastSoundbarStatus.valid /\ mqttUp /\ btConnected

RECURSIVE SumBytes(_, _, _)
SumBytes(b, i, j) == IF i > j THEN 0 ELSE b[i] + SumBytes(b, i + 1, j)

\* C20: for every command name of the table, the frame is the magic cc aa,
\* one length byte equal to the number of payload bytes, the payload of the
\* table, and one checksum byte, and length + payload bytes + checksum is 0
\* modulo 256.
C20_FrameLayoutAndChecksum ==
    (pc = "bytes" /\ cmd \in CommandNames) =>
        LET n == Len(bytes)
            payload == COMMANDS(cmd)
        IN  /\ SubSeq(hex, 1, 4) = <<12, 12, 10, 10>>
            /\ Len(hex) = 2 * n
            /\ Len(payload) = 2 * (n - 4)
            /\ bytes[1] = 204 /\ bytes[2] = 170
            /\ bytes[3] = n - 4
            /\ \A i \in 1..(n - 4) :
                   bytes[3 + i] = 16 * payload[2 * i - 1] + payload[2 * i]
            /\ bytes[n] \in 0..255
            /\ (bytes[3] + SumBytes(bytes, 4, n - 1) + bytes[n]) % 256 = 0

\* volume_up is framed as cc aa 03 40 78 1e 27
C20_Witness ==
    pc = "bytes" /\ cmd = "volume_up"
        /\ bytes = <<204, 170, 3, 64, 120, 30, 39>>

C23_RejectedInputGivesDefaults ==
    (pc = "decoded" /\ (Len(buffer) < 16 \/ buffer[4] # 5)) =>
        rxStatus = [power |-> FALSE, input |-> "unknown", muted |-> FALSE,
                    volume |-> 0, subwoofer |-> 0, surround |-> "unknown",
                    bass_ext |-> FALSE, clear_voice |-> FALSE,
                    valid |-> FALSE]

\* a response of type 05 cut to 15 bytes is rejected
C23_Witness ==
    /\ pc = "decoded" /\ Len(buffer) = 15 /\ buffer[4] = 5
    /\ response = bytesToHexString(buffer)
    /\ ~rxStatus.valid /\ rxStatus.input = "unknown" /\ rxStatus.volume = 0

\* the name of the input whose code is the byte b
InputOfByte(b) ==
    CASE b = 0 -> "hdmi" [] b = 12 -> "analog" [] b = 5 -> "bluetooth"
      [] b = 7 -> "tv" [] OTHER -> "unknown"

\* the name of the surround mode whose code is the bytes hi, lo
SurroundOfBytes(hi, lo) ==
    CASE hi = 0 /\ lo = 13 -> "3d" [] hi = 0 /\ lo = 10 -> "tv"
      [] hi = 1 /\ lo = 0 -> "stereo" [] hi = 0 /\ lo = 3 -> "movie"
      [] hi = 0 /\ lo = 8 -> "music" [] hi = 0 /\ lo = 9 -> "sports"
      [] hi = 0 /\ lo = 12 -> "game" [] OTHER -> "unknown"

\* C24: decodeStatus of an input of at least 16 bytes whose byte at offset 3
\* is 05 is valid, with power, input, muted, volume and subwoofer from the
\* bytes at offsets 5 to 9, surround from the two bytes at offset 13, and
\* bass_ext and clear_voice from the high and the low half of the byte at
\* offset 15, each on its own; a code outside the name tables gives "unknown"
\* for that field only.
C24_FieldsFromFixedOffsets ==
    (pc = "decoded" /\ Len(buffer) >= 16 /\ buffer[4] = 5) =>
        rxStatus = [valid |-> TRUE,
                    power |-> buffer[6] = 1,
                    input |-> InputOfByte(buffer[7]),
                    muted |-> buffer[8] = 1,
                    volume |-> buffer[9],
                    subwoofer |-> buffer[10],
                    surround |-> SurroundOfBytes(buffer[14], buffer[15]),
                    bass_ext |-> buffer[16] \div 16 = 2,
                    clear_voice |-> buffer[16] % 16 = 4]

\* a response with a surround code outside the table and only the
\* clear-voice half of the flags set: the other fields are read as usual
C24_Witness ==
    /\ pc = "decoded" /\ buffer = StatusFrame(5, 1, 0, 0, 10, 8, <<1, 13>>, 20)
    /\ rxStatus.valid /\ rxStatus.surround = "unknown"
    /\ rxStatus.input = "hdmi" /\ rxStatus.volume = 10
    /\ ~rxStatus.bass_ext /\ rxStatus.clear_voice

\* a step that is one call of sendCommand()
SendCall == lastOp' = "sendCommand"

\* the variables of the connection and the Last Known Status
ConnectionState ==
    <<linkUp, btConnected, isPaired, prefsPaired, btStats, lastBtStatus,
      lastPublishedBtStatus, lastBtConnectAttempt, reconnectHoldOffUntil,
      lastSoundbarStatus, lastStatusPoll, mqttUp>>

\* C22: for a name that is not a key of COMMANDS encodeCommand returns the
\* empty string, and a call of sendCommand with it returns false, calls
\* SerialBT.write() not at all and changes neither bytesSent nor the
\* connection state nor the Last Known Status.
C22_UnknownNameRejectedBeforeIO ==
    [][(SendCall /\ cmd' \notin CommandNames) =>
           /\ encodeCommand(cmd') = <<>>
           /\ result' = FALSE
           /\ wire' = wire
           /\ bytesSent' = bytesSent
           /\ bytesReceived' = bytesReceived
           /\ io' = io
           /\ UNCHANGED ConnectionState]_vars

\* after a write of 7 bytes on an open link, sendCommand("volume") returns
\* false and the counter and the log of writes are as before
C22_Witness ==
    /\ pc = "tx" /\ lastOp = "sendCommand" /\ cmd = "volume"
    /\ linkUp /\ btConnected
    /\ result = FALSE /\ bytesSent = 7 /\ Len(wire) = 1

\* C25: a call of sendCommand with a name of the table calls
\* SerialBT.write() once, with the frame of the command; it returns true
\* exactly when the write accepted every byte of the frame, and bytesSent
\* grows by the number of bytes the write accepted, also when that is fewer
\* than the frame has.
C25_OneWriteAllOrFail ==
    [][(SendCall /\ cmd' \in CommandNames) =>
           /\ Len(wire') = Len(wire) + 1
           /\ SubSeq(wire', 1, Len(wire)) = wire
           /\ LET w == wire'[Len(wire')]
              IN  /\ w.bytes = hexStringToBytes(encodeCommand(cmd'), 32)
                  /\ w.written \in 0..Len(w.bytes)
                  /\ result' = (w.written = Len(w.bytes))
                  /\ bytesSent' = bytesSent + w.written]_vars

\* a short write: 1 of the 7 bytes of volume_up is accepted, the call
\* returns false and bytesSent is 1
C25_Witness ==
    /\ pc = "tx" /\ lastOp = "sendCommand" /\ cmd = "volume_up"
    /\ wire = << [bytes |-> <<204, 170, 3, 64, 120, 30, 39>>, written |-> 1] >>
    /\ result = FALSE /\ bytesSent = 1

\* the strings published on the bt_status topic in the log of a step, in
\* order
BtStatusPublishes(log) ==
    LET on == SelectSeq(log, LAMBDA e : e[1] = "mqtt.publish"
                                          /\ e[2] = "bt_status")
    IN  [i \in 1..Len(on) |-> on[i][3]]

\* C26: the same status string is never published twice in a row on the
\* bt_status topic.  Before a step lastPublishedBtStatus is the string
\* published last since the start ("" when there was none): only
\* publishBtStatus() publishes on the topic and it stores what it publishes.
C26_NoRepeatedBtStatus ==
    [][LET p == BtStatusPublishes(io')
       IN  /\ \A i \in 1..(Len(p) - 1) : p[i] # p[i + 1]
           /\ (p # <<>> /\ lastPublishedBtStatus # "")
                  => p[1] # lastPublishedBtStatus]_vars

\* C28: a message on the command topic whose text is not a key of COMMANDS
\* leads to no write on the link, no status request and no publication; the
\* step changes neither the clock nor the Last Known Status.
C28_UnknownCommandNotForwarded ==
    [][(lastOp' = "mqttCommand" /\ io'[1][3] \notin CommandNames) =>
           /\ io' = << Received("command", io'[1][3]) >>
           /\ pub' = <<>>
           /\ now' = now
           /\ lastSoundbarStatus' = lastSoundbarStatus]_vars

\* "volume" arrived on the command topic of a bridge that is connected to the
\* soundbar and the broker: nothing but the arrival is in the log
C28_Witness ==
    /\ lastOp = "mqttCommand" /\ io = << Received("command", "volume") >>
    /\ btConnected /\ linkUp /\ mqttUp /\ pending = 0

\* C27: while btConnected is false, GET /status and GET /send_command with a
\* command of the table are answered 503 at once: the log of the step holds
\* the request and the response only, so nothing is written to or read from
\* the link, and the clock does not move.
C27_NotConnectedAnswersAtOnce ==
    [][(/\ ~btConnected
        /\ \/ lastOp' = "handleStatus"
           \/ lastOp' = "handleSendCommand" /\ io'[1][3] \in CommandNames)
         => /\ io' = << io'[1], <<"http.send", "503", "">> >>
            /\ now' = now
            /\ pub' = <<>>
            /\ lastSoundbarStatus' = lastSoundbarStatus]_vars

\* GET /send_command?command=power_on at a bridge that never reached the
\* soundbar
C27_Witness ==
    /\ lastOp = "handleSendCommand" /\ ~btConnected
    /\ io = << Request("send_command", "power_on"),
               <<"http.send", "503", "">> >>

\* the calls of SerialBT.connect() in the log of a step, in order
Connects(log) == SelectSeq(log, LAMBDA e : e[1] = "bt.connect")

\* the places of the log where e stands
Places(log, e) == {i \in 1..Len(log) : log[i] = e}

\* the places of the log where SerialBT.connect() is called
ConnectPlaces(log) == {i \in 1..Len(log) : log[i][1] = "bt.connect"}

\* C29: in a call of connectBluetooth that makes an attempt, the connects by
\* address come first, there are at most 3 of them and none after one that
\* succeeded; the connect by name is made at most once, and only after 3
\* address connects that all failed or when the build has no address that
\* parses; a stale client is disconnected before the first connect (and
\* without a stale client nothing is disconnected).
C29_AddressThenNameOnce ==
    [][conn' \in {"ok", "fail"} =>
          LET c == Connects(io')
              byAddr == SelectSeq(c, LAMBDA e : e[2] = "address")
              byName == SelectSeq(c, LAMBDA e : e[2] = "name")
          IN  /\ c = byAddr \o byName
              /\ Len(byAddr) <= 3 /\ Len(byName) <= 1
              /\ \A i \in 1..(Len(c) - 1) : c[i][3] = "failed"
              /\ byName # <<>> => (Len(byAddr) = 3 \/ ~addressValid)
              /\ addressValid => byAddr # <<>>
              /\ ~addressValid => byAddr = <<>>
              /\ c # <<>>
              /\ IF Places(io', hasClient(TRUE)) # {}
                 THEN \E d \in Places(io', <<"bt.disconnect", "", "">>) :
                          /\ \A h \in Places(io', hasClient(TRUE)) : h < d
                          /\ \A k \in ConnectPlaces(io') : d < k
                 ELSE Places(io', <<"bt.disconnect", "", "">>) = {}]_vars

\* a reconnect with a stale client in which the three connects by address
\* fail and the connect by name succeeds
C29_Witness ==
    /\ lastOp = "loop" /\ conn = "ok" /\ addressValid
    /\ SelectSeq(io, LAMBDA e : e[1] \in {"bt.hasClient", "bt.disconnect",
                                          "bt.connect"})
           = << hasClient(TRUE), <<"bt.disconnect", "", "">>,
                <<"bt.connect", "address", "failed">>,
                <<"bt.connect", "address", "failed">>,
                <<"bt.connect", "address", "failed">>,
                <<"bt.connect", "name", "ok">> >>

\* requestStatus() has returned
Returned == pc \in {"unsent", "silent", "decoded"}

\* the bytes of inbound that reached the bridge after the time t, up to n of
\* them
ArrivedAfter(t, n) ==
    LET k == Cardinality({i \in 1..Len(inbound) : inbound[i].at <= t})
    IN  [i \in 1..n |-> inbound[k + i].byte]

\* no byte has reached the bridge in the milliseconds from..to
SilentFor(from, to) ==
    \A i \in 1..Len(inbound) : inbound[i].at < from \/ inbound[i].at > to

\* C30: requestStatus first drops every byte that has arrived and then sends
\* the request, so that what it reads are bytes that arrived later; it
\* always returns; the wait ends only when 3000 ms have passed since the
\* request, or when at least one byte was read and none arrived for more
\* than 100 ms, or when 64 bytes were read, and never later than that; it
\* returns the initial record, valid = false, when the request could not be
\* sent or no byte was read.
C30_RequestStatusTerminates ==
    /\ <>Returned
    /\ [][wire' # wire =>
             /\ taken = Cardinality({i \in 1..Len(inbound) :
                                        inbound[i].at <= now})
             /\ now' = now]_vars
    /\ [][(pc = "rq_loop" /\ pc' # "rq_loop") =>
             \/ now - requestStart >= 3000
             \/ Len(buffer) = 64
             \/ /\ Len(buffer) >= 1
                /\ now - lastByteTime > 100
                /\ SilentFor(lastByteTime + 1, now)]_vars
    /\ [](pc = "rq_loop" =>
             /\ now - requestStart <= 3000
             /\ Len(buffer) <= 64
             /\ Len(buffer) >= 1 => now - lastByteTime <= 101)
    /\ [](pc \in {"rq_loop", "rx_bytes", "rx_hex", "decoded", "silent"} =>
             /\ buffer = ArrivedAfter(requestStart, Len(buffer))
             /\ bytesReceived = Len(buffer))
    /\ [](pc \in {"unsent", "silent"} =>
             rxStatus = [power |-> FALSE, input |-> "unknown",
                         muted |-> FALSE, volume |-> 0, subwoofer |-> 0,
                         surround |-> "unknown", bass_ext |-> FALSE,
                         clear_voice |-> FALSE, valid |-> FALSE])
    /\ [](pc = "unsent" => ~result /\ buffer = <<>> /\ bytesReceived = 0)

\* three bytes had arrived before the call and the response arrived 20 ms
\* after the request: the three are dropped, the 16 bytes of the response
\* are read and decoded, and the call returns 136 ms after the request
C30_Witness ==
    /\ pc = "decoded" /\ Len(inbound) = 19 /\ taken = 19
    /\ buffer = Response /\ rxStatus.valid /\ rxStatus.volume = 10
    /\ bytesReceived = 16 /\ bytesSent = 6
    /\ now - requestStart = 136

----------------------------------------------------------------------------
(* Callbacks *)

\* Connection State: the flags, the times and the counters, with the status
\* string
ConnectionVars ==
    <<btConnected, isPaired, prefsPaired, lastBtConnectAttempt,
      reconnectHoldOffUntil, btStats, lastBtStatus>>

\* C31: gapCallback answers a PIN request with exactly one accepting reply
\* that carries the PIN 1234 and a numeric-confirmation request with exactly
\* one accepting confirmation; an authentication-complete event, a mode
\* change and every other event get no reply; no event changes btConnected,
\* isPaired, the stored flag, the times, the counters or the status string.
C31_PairingEventsAnswered ==
    [][lastOp' = "gapCallback" =>
          LET event == io'[1][2]
              replies == Tail(io')
          IN  /\ io'[1][1] = "bt.gap"
              /\ event = "PIN_REQ" =>
                    replies = << <<"bt.pin_reply", "accept", "1234">> >>
              /\ event = "CFM_REQ" =>
                    replies = << <<"bt.ssp_confirm_reply", "accept", "">> >>
              /\ event \notin {"PIN_REQ", "CFM_REQ"} => replies = <<>>
              /\ UNCHANGED ConnectionVars
              /\ UNCHANGED <<linkUp, lastSoundbarStatus>>]_vars

\* a PIN request was answered while an attempt to connect had been counted
C31_Witness ==
    /\ lastOp = "gapCallback"
    /\ io = << <<"bt.gap", "PIN_REQ", "">>,
               <<"bt.pin_reply", "accept", "1234">> >>
    /\ btStats.connectAttempts > 0
    /\ ~isPaired

CallbackOps == {"gapCallback", "btCallback", "WiFiEvent"}

\* C32: the callbacks that run outside the loop (gapCallback, btCallback,
\* WiFiEvent) write none of btConnected, isPaired, the hold-off and attempt
\* times, the counters, the status string and Last Known Status, and do not
\* move the loop task; every control operation is one step of the loop task,
\* taken at its place in the tick: a request handler first, then a message
\* handler, then the reconnect block with the poll.
C32_NoConcurrentWriters ==
    [][/\ lastOp' \in CallbackOps =>
             /\ UNCHANGED ConnectionVars
             /\ UNCHANGED <<lastSoundbarStatus, lastStatusPoll, pc>>
       /\ lastOp' = "setup" => pc = "setup" /\ pc' = "tick"
       /\ lastOp' \in {"handleResetPairing", "handleSendCommand"} =>
             pc = "tick" /\ pc' = "mqtt_loop"
       /\ lastOp' \in {"mqttSetVolume", "idle"} =>
             pc \in {"tick", "mqtt_loop"} /\ pc' = "reconnect"
       /\ lastOp' = "loop" => pc = "reconnect" /\ pc' = "tick"
       /\ lastOp' \in CallbackOps \cup {"setup", "handleResetPairing",
                                       "handleSendCommand", "mqttSetVolume",
                                       "idle", "loop"}]_vars

\* the link closed under a bridge that holds the soundbar connected, and the
\* flag is as it was
C32_Witness ==
    /\ lastOp = "btCallback"
    /\ io = << <<"bt.spp", "CLOSE", "">> >>
    /\ btConnected
    /\ ~linkUp
    /\ pc = "reconnect"

----------------------------------------------------------------------------
(* Paths to the link *)

\* the calls of SerialBT.write() in a log
LinkWrites(log) == SelectSeq(log, LAMBDA e : e[1] = "bt.write")

\* C33: no operation hands bytes to an open link while btConnected is false:
\* a step that calls SerialBT.write() on an open link runs with btConnected
\* true.  (No operation that writes changes btConnected after the write, so
\* the value after the step is the value at the write.)
C33_NoWriteWhileDisconnected ==
    [][LinkWrites(io') # <<>> /\ linkUp' => btConnected']_vars

----------------------------------------------------------------------------
(* Convergence against a soundbar that keeps its levels *)

\* C34: after setVolume(target) with a valid first reading the volume of the
\* soundbar is the target and the confirmation poll has published the record
\* with that volume; after setSubwoofer(target) with a valid first reading
\* the level of the soundbar lies between the level read and the target and
\* is less than 4 away from the target.
C34_ConvergesAndConfirms ==
    [][/\ lastOp' = "mqttSetVolume" /\ call'.status.valid =>
             /\ Level'.volume = call'.target
             /\ pub' = <<StatusJson(Level')>>
       /\ lastOp' = "mqttSetSubwoofer" /\ call'.status.valid =>
             LET from == call'.status.subwoofer
                 to == call'.target
                 at == Level'.subwoofer
             IN  /\ (from <= at /\ at <= to) \/ (to <= at /\ at <= from)
                 /\ Abs(to - at) < 4]_vars

\* the part of C34 about the levels alone, with the publication asked for
\* only when the first reading is off the target
ConvergesOffTarget ==
    [][/\ lastOp' = "mqttSetVolume" /\ call'.status.valid =>
             /\ Level'.volume = call'.target
             /\ call'.status.volume # call'.target =>
                   pub' = <<StatusJson(Level')>>
       /\ lastOp' = "mqttSetSubwoofer" /\ call'.status.valid =>
             LET from == call'.status.subwoofer
                 to == call'.target
                 at == Level'.subwoofer
             IN  /\ (from <= at /\ at <= to) \/ (to <= at /\ at <= from)
                 /\ Abs(to - at) < 4]_vars

----------------------------------------------------------------------------
(* Payloads of the set-value topics *)

\* the payload is the decimal notation of an integer: digits, after an
\* optional sign
IsInteger(p) ==
    LET digits == IF p # <<>> /\ Head(p) \in {"-", "+"} THEN Tail(p) ELSE p
    IN  /\ digits # <<>>
        /\ \A i \in DOMAIN digits :
               digits[i] \in {"0", "1", "2", "3", "4", "5", "6", "7", "8", "9"}

\* the integer an integer payload denotes
RECURSIVE Denoted(_, _)
Denoted(p, acc) ==
    IF p = <<>> THEN acc
    ELSE IF Head(p) = "+" THEN Denoted(Tail(p), acc)
    ELSE IF Head(p) = "-" THEN 0 - Denoted(Tail(p), acc)
    ELSE Denoted(Tail(p),
                 10 * acc + (CHOOSE d \in 0..9 :
                                 <<"0", "1", "2", "3", "4", "5", "6", "7", "8",
                                   "9">>[d + 1] = Head(p)))

\* the payload is an integer of the range 0..max
InRange(p, max) == IsInteger(p) /\ Denoted(p, 0) >= 0 /\ Denoted(p, 0) <= max

\* C35: a message on the volume topic whose payload is not an integer in
\* 0..50, and a message on the subwoofer topic whose payload is not an
\* integer in 0..32, causes no status request and no toggle command: the
\* step makes no call after taking the message.
C35_OnlyIntegersInRangeForwarded ==
    [][/\ lastOp' = "volumeMessage" /\ ~InRange(io'[1][3], 50) =>
             Tail(io') = <<>>
       /\ lastOp' = "subwooferMessage" /\ ~InRange(io'[1][3], 32) =>
             Tail(io') = <<>>]_vars

----------------------------------------------------------------------------
(* Counters *)

\* C36: between two restarts, connectSuccesses + connectFailures never
\* exceeds connectAttempts and none of the three decreases; a step that calls
\* connectBluetooth() adds exactly one to connectAttempts and changes exactly
\* one of: connectSuccesses (by one, the attempt succeeded), connectFailures
\* (by one, it failed), neither (the link was found open); a step that does
\* not call it leaves the three as they are.
C36_CountersConsistent ==
    [][LET before == btStats
           after == btStats'
       IN  /\ after.connectSuccesses + after.connectFailures
                 <= after.connectAttempts
           /\ lastOp' # "restart" =>
                 /\ after.connectAttempts >= before.connectAttempts
                 /\ after.connectSuccesses >= before.connectSuccesses
                 /\ after.connectFailures >= before.connectFailures
                 /\ conn' = "none" =>
                       /\ after.connectAttempts = before.connectAttempts
                       /\ after.connectSuccesses = before.connectSuccesses
                       /\ after.connectFailures = before.connectFailures
                 /\ conn' # "none" =>
                       /\ after.connectAttempts = before.connectAttempts + 1
                       /\ conn' \in {"ok", "fail", "already"}
                       /\ after.connectSuccesses - before.connectSuccesses
                             = IF conn' = "ok" THEN 1 ELSE 0
                       /\ after.connectFailures - before.connectFailures
                             = IF conn' = "fail" THEN 1 ELSE 0]_vars

\* the second call found the link open after the first had failed: two
\* attempts, one failure, no success
C36_Witness ==
    /\ conn = "already"
    /\ btStats.connectAttempts = 2
    /\ btStats.connectFailures = 1
    /\ btStats.connectSuccesses = 0
    /\ btConnected

----------------------------------------------------------------------------
(* The flag, the status string and the availability topic *)

\* C37: in every state between two operations btConnected is true exactly
\* when the connection status string is "connected".
C37_FlagMatchesStatus == btConnected <=> (lastBtStatus = "connected")

\* the values a log publishes on the availability topic
AvailabilityPublishes(log) ==
    SelectSeq(log, LAMBDA e : e[1] = "mqtt.publish" /\ e[2] = "available")

\* C38: while MQTT is connected, a step that ends with btConnected false
\* after it was true has published "offline" on the availability topic, as
\* the last value it published there, so that no later operation finds
\* btConnected false under "online".
C38_OfflinePublishedOnLoss ==
    [][btConnected /\ ~btConnected' /\ mqttUp /\ mqttUp' =>
          LET published == AvailabilityPublishes(io')
          IN  /\ published # <<>>
              /\ published[Len(published)][3] = "offline"]_vars

----------------------------------------------------------------------------
(* Telemetry after a broker outage *)

\* the periodic poll of the last step took a valid record that differs from
\* Last Known Status while MQTT was disconnected
ChangeDropped ==
    lastOp = "loop" /\ poll.path = "changed" /\ ~mqttUp
        /\ lastSoundbarStatus = Steady

\* the last step published the record of the soundbar on the state topic
ChangeSent == \E i \in DOMAIN pub : pub[i] = StatusJson(Steady)

\* MQTT is connected again and the periodic poll of the last step read the
\* record that is Last Known Status
PolledOnline ==
    lastOp = "loop" /\ mqttUp /\ poll.path = "same"
        /\ lastSoundbarStatus = Steady

\* C39: when a valid poll differed from Last Known Status while MQTT was
\* disconnected, then, the soundbar staying as it is, the record is
\* eventually published on the state topic, unless MQTT never comes back to
\* a tick that polls.
C39_ChangeReachesTelemetry ==
    [](ChangeDropped =>
          \/ <>ChangeSent
          \/ <>(lastSoundbarStatus # Steady)
          \/ []~PolledOnline)

----------------------------------------------------------------------------
(* Authentication *)

\* the request carries the configured key: as the Authorization header, bare
\* or after "Bearer ", or as the argument api_key
CarriesKey(cred) ==
    \/ cred.hasHeader /\ cred.header \in {apiKey, Bearer \o apiKey}
    \/ cred.hasArg /\ cred.arg = apiKey

\* C40: with an API key configured, a request that carries the key neither
\* in the Authorization header nor in the argument api_key is answered 401
\* and nothing else is done: no call is made (no bond removed, no disconnect,
\* no write to the link, no stored flag written) and the flags, the hold-off
\* and attempt times, the counters, the status string, the link and Last
\* Known Status stay as they are; with an empty key no request is answered
\* 401.
C40_UnauthorizedChangesNothing ==
    [][lastOp' = "handleClient" =>
          LET cred == io'[1][3]
              answer == io'[Len(io')]
          IN  /\ io'[1][1] = "http.request"
              /\ answer[1] = "http.send"
              /\ (apiKey # <<>> /\ ~CarriesKey(cred)) =>
                    /\ Tail(io') = << <<"http.send", "401", "">> >>
                    /\ UNCHANGED ConnectionVars
                    /\ UNCHANGED <<linkUp, lastSoundbarStatus, lastStatusPoll,
                                   now>>
                    /\ pub' = <<>>
              /\ apiKey = <<>> => answer[2] # "401"]_vars

\* a reset request with a bearer token that is not the key was refused at a
\* bridge that holds the soundbar connected and paired
C40_Witness ==
    /\ lastOp = "handleClient"
    /\ apiKey = KeySet
    /\ io = << Request("/reset_pairing",
                       Carried(TRUE, Bearer \o KeyOther, FALSE, <<>>)),
               <<"http.send", "401", "">> >>
    /\ btConnected /\ isPaired /\ reconnectHoldOffUntil = 0

====
